---------------------------- MODULE Spec2Model ----------------------------
(***************************************************************************)
(* Model of the cryptographic trust primitives of rustend (crate utils):   *)
(*   - utils/src/encryption.rs : AesGcmEncryption (AES-256-GCM tokens)     *)
(*   - utils/src/signature.rs  : Signature, Signer, SignedRequest,         *)
(*                                 create_signed_url, verify_signed_url    *)
(*   - utils/src/hash.rs       : Hash (argon2 and bcrypt)                  *)
(*                                                                         *)
(* Strings and byte slices are sequences of bytes (0..255); a &str is a    *)
(* byte sequence that is valid UTF-8.  Results are records:                *)
(*   Ok(v)  = [ok |-> TRUE,  val |-> v]                                    *)
(*   Err(e) = [ok |-> FALSE, err |-> e]                                    *)
(* The external primitives (AES-256-GCM, HMAC-SHA256) are modelled by      *)
(* authenticated constructions with the same shape over a small prime      *)
(* field: a keystream XOR with a polynomial tag for GCM, a keyed           *)
(* polynomial digest for HMAC.  base64 and UTF-8 are modelled byte for     *)
(* byte.                                                                   *)
(***************************************************************************)
EXTENDS Integers, Sequences, FiniteSets, TLC

VARIABLES
    cipher,     \* AesGcmEncryption.cipher: the key the encryptor was built with
    issued,     \* log of this encryptor's encrypt calls: [pt, nonce, out]
    dec,        \* the call on an encryptor that returned:
                \* [op, i, pos, bit, key, token, res, raw] for decrypt (res) and
                \* decrypt_bytes (raw) of one token, [op, key, res] for new
    now,        \* chrono::Utc::now().timestamp()
    ticks,      \* how many times the clock has advanced
    overflow_checks,    \* the build: TRUE panics on integer overflow (debug),
                        \* FALSE wraps (release)
    sig,        \* the last Signer::sign call and the Signature it returned,
                \* as the verifier holds it: [op, m, k, forged, uses, res], uses
                \* counting how often it was presented to verify
    vr,         \* the Signature::verify call that returned:
                \* [op, m, k, w, now, seen, res], seen being the earlier
                \* presentations of the same signature
    req,        \* the SignedRequest being built or in flight:
                \* [stage, r, orig, k], orig being the request as it was signed
    rv,         \* the SignedRequest::verify call that returned: [op, k, w, now, res]
    url,        \* the last create_signed_url call and the query string in
                \* flight: [op, path, params, k, ts, orig, res]
    uv,         \* the verify_signed_url call that returned: [op, path, k, w, now, res]
    hsh,        \* the Hash value held: [op, known, secret, salt, input, res]
    hv,         \* the Hash::verify call that returned: [op, secret, res]
    kept,       \* the Hash value of an earlier Hash::argon2 call, stored away
    thr,        \* the calls in progress on the shared encryptor, per thread
    otp         \* the generate_otp call that returned: [op, digits, res]

encVars == <<cipher, issued, dec>>

clockVars == <<now, ticks, overflow_checks>>

sigVars == <<sig, vr>>

reqVars == <<req, rv>>

urlVars == <<url, uv>>

hashVars == <<hsh, hv, kept>>

concVars == <<thr>>

otpVars == <<otp>>

vars == <<cipher, issued, dec, now, ticks, overflow_checks, sig, vr, req, rv,
          url, uv, hsh, hv, kept, thr, otp>>

\* what the operations of one component leave alone
notEnc == <<clockVars, sigVars, reqVars, urlVars, hashVars, concVars, otpVars>>

notSig == <<encVars, clockVars, reqVars, urlVars, hashVars, concVars, otpVars>>

notReq == <<encVars, clockVars, sigVars, urlVars, hashVars, concVars, otpVars>>

notUrl == <<encVars, clockVars, sigVars, reqVars, hashVars, concVars, otpVars>>

notHash == <<encVars, clockVars, sigVars, reqVars, urlVars, concVars, otpVars>>

notConc == <<dec, clockVars, sigVars, reqVars, urlVars, hashVars, otpVars>>

-----------------------------------------------------------------------------
(* Results *)

Ok(v) == [ok |-> TRUE, val |-> v]

Err(e) == [ok |-> FALSE, err |-> e]

-----------------------------------------------------------------------------
(* Bytes *)

Byte == 0..255

RECURSIVE BitXor(_, _)
BitXor(a, b) ==
    IF a = 0 THEN b
    ELSE IF b = 0 THEN a
    ELSE ((a + b) % 2) + 2 * BitXor(a \div 2, b \div 2)

\* the byte c with bit b (0 = least significant) flipped
FlipBit(c, b) == BitXor(c, 2 ^ b)

\* the sequence s with bit b of its element at pos flipped
FlipAt(s, pos, b) == [s EXCEPT ![pos] = FlipBit(s[pos], b)]

-----------------------------------------------------------------------------
(* base64::engine::general_purpose::STANDARD *)

PadChar == 61

B64Char(v) ==
    IF v < 26 THEN 65 + v
    ELSE IF v < 52 THEN 97 + (v - 26)
    ELSE IF v < 62 THEN 48 + (v - 52)
    ELSE IF v = 62 THEN 43
    ELSE 47

\* the 6-bit value of an alphabet character, -1 for any other byte
B64Val(c) ==
    IF c >= 65 /\ c <= 90 THEN c - 65
    ELSE IF c >= 97 /\ c <= 122 THEN c - 97 + 26
    ELSE IF c >= 48 /\ c <= 57 THEN c - 48 + 52
    ELSE IF c = 43 THEN 62
    ELSE IF c = 47 THEN 63
    ELSE -1

B64Encode(bs) ==
    LET n == Len(bs)
        at(i) == IF i <= n THEN bs[i] ELSE 0
    IN  [j \in 1..(4 * ((n + 2) \div 3)) |->
            LET g == (j - 1) \div 4
                k == (j - 1) % 4
                b0 == at(3 * g + 1)
                b1 == at(3 * g + 2)
                b2 == at(3 * g + 3)
            IN  IF k = 0 THEN B64Char(b0 \div 4)
                ELSE IF k = 1 THEN B64Char((b0 % 4) * 16 + b1 \div 16)
                ELSE IF k = 2 THEN
                    IF 3 * g + 2 > n THEN PadChar
                    ELSE B64Char((b1 % 16) * 4 + b2 \div 64)
                ELSE
                    IF 3 * g + 3 > n THEN PadChar
                    ELSE B64Char(b2 % 64)]

\* number of trailing padding characters looked at by the decoder
B64Pad(cs) ==
    LET n == Len(cs)
    IN  IF n > 0 /\ cs[n] = PadChar
        THEN (IF n > 1 /\ cs[n - 1] = PadChar THEN 2 ELSE 1)
        ELSE 0

\* a decoder that lets non-zero trailing bits pass
B64TrailingLenient(cs) == TRUE

\* canonical padding is required and trailing bits must be zero
B64TrailingOk(cs) ==
    LET pad == B64Pad(cs)
        last == B64Val(cs[Len(cs) - pad])
    IN  IF pad = 2 THEN last % 16 = 0
        ELSE IF pad = 1 THEN last % 4 = 0
        ELSE TRUE

B64Valid(cs) ==
    LET n == Len(cs)
        pad == B64Pad(cs)
    IN  /\ n % 4 = 0
        /\ \A i \in 1..(n - pad) : B64Val(cs[i]) >= 0
        /\ (n > 0 => B64TrailingOk(cs))

B64Bytes(cs) ==
    LET data == Len(cs) - B64Pad(cs)
    IN  [i \in 1..((data * 6) \div 8) |->
            LET off == 8 * (i - 1)
                q == off \div 6 + 1
                r == off % 6
                v0 == B64Val(cs[q])
                v1 == B64Val(cs[q + 1])
            IN  IF r = 0 THEN v0 * 4 + v1 \div 16
                ELSE IF r = 2 THEN (v0 % 16) * 16 + v1 \div 4
                ELSE (v0 % 4) * 64 + v1]

B64Decode(cs) == IF B64Valid(cs) THEN Ok(B64Bytes(cs)) ELSE Err("DecodeError")

-----------------------------------------------------------------------------
(* String::from_utf8 *)

Cont(b) == b >= 128 /\ b <= 191

RECURSIVE Utf8ValidFrom(_, _)
Utf8ValidFrom(bs, i) ==
    LET n == Len(bs)
        b == bs[i]
        tail(k) == \A j \in 2..k : Cont(bs[i + j])
    IN  IF i > n THEN TRUE
        ELSE IF b < 128 THEN Utf8ValidFrom(bs, i + 1)
        ELSE IF b >= 194 /\ b <= 223 THEN
            i + 1 <= n /\ Cont(bs[i + 1]) /\ Utf8ValidFrom(bs, i + 2)
        ELSE IF b >= 224 /\ b <= 239 THEN
            /\ i + 2 <= n
            /\ bs[i + 1] >= (IF b = 224 THEN 160 ELSE 128)
            /\ bs[i + 1] <= (IF b = 237 THEN 159 ELSE 191)
            /\ tail(2)
            /\ Utf8ValidFrom(bs, i + 3)
        ELSE IF b >= 240 /\ b <= 244 THEN
            /\ i + 3 <= n
            /\ bs[i + 1] >= (IF b = 240 THEN 144 ELSE 128)
            /\ bs[i + 1] <= (IF b = 244 THEN 143 ELSE 191)
            /\ tail(3)
            /\ Utf8ValidFrom(bs, i + 4)
        ELSE FALSE

Utf8Valid(bs) == Utf8ValidFrom(bs, 1)

FromUtf8(bs) == IF Utf8Valid(bs) THEN Ok(bs) ELSE Err("FromUtf8Error")

-----------------------------------------------------------------------------
(* Program constants *)

KeyLen == 32

NonceLen == 12

TagLen == 16

MinTokenLen == 28

-----------------------------------------------------------------------------
(* aes_gcm::Aes256Gcm, modelled over the prime field of FieldPrime        *)
(* elements: counter-mode keystream XOR, and a polynomial tag evaluated   *)
(* at a key-derived point and masked by a (key, nonce)-derived value.     *)

FieldPrime == 32749

RECURSIVE PowMod(_, _)
PowMod(r, k) ==
    IF k = 0 THEN 1
    ELSE LET h == PowMod(r, k \div 2)
             sq == (h * h) % FieldPrime
         IN  IF k % 2 = 0 THEN sq ELSE (sq * r) % FieldPrime

\* the polynomial with coefficients bs[lo..hi] + 1 evaluated at r
RECURSIVE Poly(_, _, _, _)
Poly(bs, lo, hi, r) ==
    IF lo > hi THEN 0
    ELSE IF lo = hi THEN bs[lo] + 1
    ELSE LET mid == (lo + hi) \div 2
         IN  (Poly(bs, lo, mid, r) * PowMod(r, hi - mid)
                + Poly(bs, mid + 1, hi, r)) % FieldPrime

Digest(bs, r) == Poly(bs, 1, Len(bs), r)

GcmSubKey(key) == 2 + (Digest(key, 31) % (FieldPrime - 2))

GcmMask(key, nonce) == Digest(key \o nonce, 257)

GcmKeystream(key, nonce, i) == Digest(key \o nonce \o <<i>>, 263) % 256

GcmCrypt(key, nonce, data) ==
    [i \in 1..Len(data) |-> BitXor(data[i], GcmKeystream(key, nonce, i))]

GcmTag(key, nonce, ct) ==
    LET s == (Digest(ct \o <<Len(ct)>>, GcmSubKey(key))
                + GcmMask(key, nonce)) % FieldPrime
    IN  [j \in 1..TagLen |->
            LET lane == (s * ((j + 1) \div 2) + j) % FieldPrime
            IN  IF j % 2 = 1 THEN lane \div 256 ELSE lane % 256]

\* Aead::encrypt(nonce, plaintext): ciphertext followed by the 16-byte tag
Aes256GcmEncrypt(key, nonce, pt) ==
    LET ct == GcmCrypt(key, nonce, pt)
    IN  Ok(ct \o GcmTag(key, nonce, ct))

\* Aead::decrypt(nonce, data): the plaintext, or an opaque error when data is
\* shorter than a tag or the tag does not match
Aes256GcmDecrypt(key, nonce, data) ==
    LET n == Len(data)
        ct == SubSeq(data, 1, n - TagLen)
        tag == SubSeq(data, n - TagLen + 1, n)
    IN  IF n < TagLen THEN Err("aead::Error")
        ELSE IF tag # GcmTag(key, nonce, ct) THEN Err("aead::Error")
        ELSE Ok(GcmCrypt(key, nonce, ct))


-----------------------------------------------------------------------------
(* utils/src/encryption.rs *)

\* a new that only refuses keys shorter than 32 bytes
New_at_least(key) ==
    IF Len(key) < KeyLen THEN Err("InvalidKeyLength") ELSE Ok(key)

\* AesGcmEncryption::new: the encryptor (identified by its key), or
\* InvalidKeyLength
New(key) ==
    IF Len(key) # KeyLen THEN Err("InvalidKeyLength") ELSE Ok(key)

\* an encrypt whose nonce buffer is never filled
encrypt_zero_nonce(key, plaintext, nonceBytes) ==
    LET zero == [i \in 1..NonceLen |-> 0]
        ciphertext == Aes256GcmEncrypt(key, zero, plaintext)
    IN  IF ~ciphertext.ok THEN Err("DecryptionFailed")
        ELSE Ok(B64Encode(zero \o ciphertext.val))

\* AesGcmEncryption::encrypt, nonceBytes being what OsRng.fill_bytes drew
encrypt(key, plaintext, nonceBytes) ==
    LET ciphertext == Aes256GcmEncrypt(key, nonceBytes, plaintext)
    IN  IF ~ciphertext.ok THEN Err("DecryptionFailed")
        ELSE Ok(B64Encode(nonceBytes \o ciphertext.val))

\* an encrypt_bytes that leaves the nonce out of the token
encrypt_bytes_no_nonce(key, plaintext, nonceBytes) ==
    LET ciphertext == Aes256GcmEncrypt(key, nonceBytes, plaintext)
    IN  IF ~ciphertext.ok THEN Err("DecryptionFailed")
        ELSE Ok(B64Encode(ciphertext.val))

\* AesGcmEncryption::encrypt_bytes, nonceBytes being what OsRng.fill_bytes drew
encrypt_bytes(key, plaintext, nonceBytes) ==
    LET ciphertext == Aes256GcmEncrypt(key, nonceBytes, plaintext)
        combined == nonceBytes \o ciphertext.val
    IN  IF ~ciphertext.ok THEN Err("DecryptionFailed")
        ELSE Ok(B64Encode(combined))

\* a decrypt that splits the token one byte early
decrypt_split_early(key, ciphertext) ==
    LET combined == B64Decode(ciphertext)
    IN  IF ~combined.ok THEN Err("InvalidCiphertext")
        ELSE IF Len(combined.val) < MinTokenLen THEN Err("InvalidCiphertext")
        ELSE
            LET nonce == SubSeq(combined.val, 1, NonceLen)
                encrypted_data ==
                    SubSeq(combined.val, NonceLen, Len(combined.val))
                plaintext == Aes256GcmDecrypt(key, nonce, encrypted_data)
            IN  IF ~plaintext.ok THEN Err("DecryptionFailed")
                ELSE IF ~FromUtf8(plaintext.val).ok THEN Err("DecryptionFailed")
                ELSE Ok(plaintext.val)

\* a decrypt that reports a failed tag check as a malformed token
decrypt_tag_as_format(key, ciphertext) ==
    LET combined == B64Decode(ciphertext)
    IN  IF ~combined.ok THEN Err("InvalidCiphertext")
        ELSE IF Len(combined.val) < MinTokenLen THEN Err("InvalidCiphertext")
        ELSE
            LET nonce == SubSeq(combined.val, 1, NonceLen)
                encrypted_data ==
                    SubSeq(combined.val, NonceLen + 1, Len(combined.val))
                plaintext == Aes256GcmDecrypt(key, nonce, encrypted_data)
            IN  IF ~plaintext.ok THEN Err("InvalidCiphertext")
                ELSE IF ~FromUtf8(plaintext.val).ok THEN Err("DecryptionFailed")
                ELSE Ok(plaintext.val)

\* AesGcmEncryption::decrypt
decrypt(key, ciphertext) ==
    LET combined == B64Decode(ciphertext)
    IN  IF ~combined.ok THEN Err("InvalidCiphertext")
        ELSE IF Len(combined.val) < MinTokenLen THEN Err("InvalidCiphertext")
        ELSE
            LET nonce == SubSeq(combined.val, 1, NonceLen)
                encrypted_data ==
                    SubSeq(combined.val, NonceLen + 1, Len(combined.val))
                plaintext == Aes256GcmDecrypt(key, nonce, encrypted_data)
            IN  IF ~plaintext.ok THEN Err("DecryptionFailed")
                ELSE IF ~FromUtf8(plaintext.val).ok THEN Err("DecryptionFailed")
                ELSE Ok(plaintext.val)

\* a decrypt_bytes that only asks for the 12 bytes of the nonce
decrypt_bytes_nonce_only(key, ciphertext) ==
    LET combined == B64Decode(ciphertext)
    IN  IF ~combined.ok THEN Err("InvalidCiphertext")
        ELSE IF Len(combined.val) < NonceLen THEN Err("InvalidCiphertext")
        ELSE
            LET nonce == SubSeq(combined.val, 1, NonceLen)
                encrypted_data ==
                    SubSeq(combined.val, NonceLen + 1, Len(combined.val))
                plaintext == Aes256GcmDecrypt(key, nonce, encrypted_data)
            IN  IF ~plaintext.ok THEN Err("DecryptionFailed")
                ELSE Ok(plaintext.val)

\* AesGcmEncryption::decrypt_bytes
decrypt_bytes(key, ciphertext) ==
    LET combined == B64Decode(ciphertext)
    IN  IF ~combined.ok THEN Err("InvalidCiphertext")
        ELSE IF Len(combined.val) < MinTokenLen THEN Err("InvalidCiphertext")
        ELSE
            LET nonce == SubSeq(combined.val, 1, NonceLen)
                encrypted_data ==
                    SubSeq(combined.val, NonceLen + 1, Len(combined.val))
                plaintext == Aes256GcmDecrypt(key, nonce, encrypted_data)
            IN  IF ~plaintext.ok THEN Err("DecryptionFailed")
                ELSE Ok(plaintext.val)

-----------------------------------------------------------------------------
(* Inputs of the encryptor *)

\* the number of encrypt calls followed
MaxCalls == 2

KeyA == [i \in 1..KeyLen |-> 0]

KeyB == [i \in 1..KeyLen |-> IF i = KeyLen THEN 1 ELSE 0]

Keys32 == {KeyA, KeyB}

\* "", "A", "e with acute accent" (two bytes)
Plaintexts == {<<>>, <<65>>, <<195, 169>>}

\* what the 96-bit draw of OsRng may be: any value, a repeated one included
Nonces == {[i \in 1..NonceLen |-> 0], [i \in 1..NonceLen |-> IF i = NonceLen THEN 255 ELSE i]}

\* bits of a token character whose flip leaves the token a &str (ASCII)
TokenBits == 0..6

\* how many characters of a token arrive when it is cut short: none, one
\* group, one character less than a group boundary, all groups but the last
TruncLens == {0, 4, 35, 36}

\* keys of every kind of length: none, AES-128, one short, right, one long
NewKeys == {[i \in 1..n |-> 0] : n \in {0, 16, KeyLen - 1, KeyLen, KeyLen + 1}}

NoCall == [op |-> "none"]

EncStart ==
    /\ cipher \in Keys32
    /\ issued = <<>>
    /\ dec = NoCall

Encrypt(p, n) ==
    /\ dec = NoCall
    /\ Len(issued) < MaxCalls
    /\ issued' = Append(issued,
            [pt |-> p, nonce |-> n, out |-> encrypt(cipher, p, n)])
    /\ UNCHANGED <<cipher, dec, notEnc>>

\* byte payloads: none, "A", a byte no UTF-8 text holds, the first byte of a
\* two-byte character alone, a continuation byte after "A"
Payloads == {<<>>, <<65>>, <<255>>, <<195>>, <<65, 169>>}

EncryptBytes(b, n) ==
    /\ dec = NoCall
    /\ Len(issued) < MaxCalls
    /\ issued' = Append(issued,
            [pt |-> b, nonce |-> n, out |-> encrypt_bytes(cipher, b, n)])
    /\ UNCHANGED <<cipher, dec, notEnc>>

\* the i-th issued token, as issued, is decrypted by an encryptor built with
\* key k: this encryptor when k = cipher, another one otherwise
Decrypt(i, k) ==
    /\ dec = NoCall
    /\ issued[i].out.ok
    /\ New(k).ok
    /\ dec' = [op |-> "decrypt", i |-> i, pos |-> 0, bit |-> 0,
               key |-> New(k).val, token |-> issued[i].out.val,
               res |-> decrypt(New(k).val, issued[i].out.val),
               raw |-> decrypt_bytes(New(k).val, issued[i].out.val)]
    /\ UNCHANGED <<cipher, issued, notEnc>>

\* the token in flight (the last one issued) arrives with bit b of its
\* character pos flipped and is decrypted by this encryptor
DecryptFlipped(pos, b) ==
    /\ dec = NoCall
    /\ issued # <<>>
    /\ issued[Len(issued)].out.ok
    /\ pos \in 1..Len(issued[Len(issued)].out.val)
    /\ LET t == FlipAt(issued[Len(issued)].out.val, pos, b)
       IN  dec' = [op |-> "decrypt", i |-> Len(issued), pos |-> pos, bit |-> b,
                   key |-> cipher, token |-> t, res |-> decrypt(cipher, t),
                   raw |-> decrypt_bytes(cipher, t)]
    /\ UNCHANGED <<cipher, issued, notEnc>>

\* only the first n characters of the token in flight arrive
DecryptTruncated(n) ==
    /\ dec = NoCall
    /\ issued # <<>>
    /\ issued[Len(issued)].out.ok
    /\ n < Len(issued[Len(issued)].out.val)
    /\ LET t == SubSeq(issued[Len(issued)].out.val, 1, n)
       IN  dec' = [op |-> "decrypt", i |-> Len(issued), pos |-> -1, bit |-> 0,
                   key |-> cipher, token |-> t, res |-> decrypt(cipher, t),
                   raw |-> decrypt_bytes(cipher, t)]
    /\ UNCHANGED <<cipher, issued, notEnc>>

\* AesGcmEncryption::new is called with a key of any length; what it returns
\* is another encryptor, or an error
Construct(key) ==
    /\ dec = NoCall
    /\ dec' = [op |-> "new", key |-> key, res |-> New(key)]
    /\ UNCHANGED <<cipher, issued, notEnc>>

\* the caller takes the result of the call that returned
DecReturn ==
    /\ dec # NoCall
    /\ dec' = NoCall
    /\ UNCHANGED <<cipher, issued, notEnc>>

\* the longest token: base64 of 12 + 2 + 16 bytes
MaxTokenLen == 40

EncNext ==
    \/ DecReturn
    \/ \E p \in Plaintexts, n \in Nonces : Encrypt(p, n)
    \/ \E i \in 1..Len(issued), k \in Keys32 : Decrypt(i, k)
    \/ \E pos \in 1..MaxTokenLen, b \in TokenBits : DecryptFlipped(pos, b)
    \/ \E n \in TruncLens : DecryptTruncated(n)
    \/ \E key \in NewKeys : Construct(key)

\* the text API and the byte API on one encryptor, tokens arriving as issued
ByteNext ==
    \/ DecReturn
    \/ \E p \in Plaintexts, n \in Nonces : Encrypt(p, n)
    \/ \E b \in Payloads, n \in Nonces : EncryptBytes(b, n)
    \/ \E i \in 1..Len(issued), k \in Keys32 : Decrypt(i, k)

EncIdle == cipher = KeyA /\ issued = <<>> /\ dec = NoCall

-----------------------------------------------------------------------------
(* i64, at WordBits bits *)

\* the width i64 is modelled at
WordBits == 10

I64Min == -(2 ^ (WordBits - 1))

I64Max == 2 ^ (WordBits - 1) - 1

InI64(x) == x >= I64Min /\ x <= I64Max

\* two's complement wrap-around of a mathematical integer
Wrap(x) == ((x - I64Min) % (2 ^ WordBits)) + I64Min

\* the result of an i64 operation whose mathematical result is x:
\* a panic under overflow checks, the wrapped value without them
Panic == [ok |-> FALSE, err |-> "panic"]

Arith(x, checks) ==
    IF InI64(x) THEN Ok(x)
    ELSE IF checks THEN Panic
    ELSE Ok(Wrap(x))

\* i64::abs
I64Abs(x, checks) == Arith(IF x < 0 THEN -x ELSE x, checks)

-----------------------------------------------------------------------------
(* format!("{}", i64) *)

RECURSIVE Digits(_)
Digits(n) == IF n < 10 THEN <<48 + n>> ELSE Digits(n \div 10) \o <<48 + (n % 10)>>

Decimal(n) == IF n < 0 THEN <<45>> \o Digits(-n) ELSE Digits(n)

-----------------------------------------------------------------------------
(* hmac::Hmac<Sha256>, modelled as a keyed polynomial digest of 32 bytes *)

MacLen == 32

HmacSha256(key, data) ==
    LET d1 == Digest(key \o <<Len(key)>> \o data, 131)
        d2 == Digest(data \o <<Len(data)>> \o key, 137)
    IN  [j \in 1..MacLen |-> ((d1 * j + d2 + j) % FieldPrime) % 256]

-----------------------------------------------------------------------------
(* utils/src/signature.rs: Signature and Signer *)

SecondsPerMinute == 60

None == <<>>

Some(x) == <<x>>

\* Signature::new
Signature_new(signature, timestamp) ==
    [signature |-> signature, timestamp |-> timestamp, nonce |-> None]

\* a sign_raw that takes keys of any length, as HMAC itself does
sign_raw_any_key(message, timestamp, key) ==
    LET data == Decimal(timestamp) \o <<46>> \o message
    IN  Ok(B64Encode(HmacSha256(key, data)))

\* Signer::sign_raw
sign_raw(message, timestamp, key) ==
    IF Len(key) # KeyLen THEN Err("InvalidKey")
    ELSE LET data == Decimal(timestamp) \o <<46>> \o message
         IN  Ok(B64Encode(HmacSha256(key, data)))

\* Signer::sign, clock being what chrono::Utc::now().timestamp() returns
sign(message, key, clock) ==
    LET signature == sign_raw(message, clock, key)
    IN  IF ~signature.ok THEN signature
        ELSE Ok(Signature_new(signature.val, clock))

\* Signature::with_nonce
Signature_with_nonce(signature, timestamp, nonce) ==
    [signature |-> signature, timestamp |-> timestamp, nonce |-> Some(nonce)]

\* a sign_with_nonce that hands the composite string to HMAC as it is
sign_with_nonce_bare(message, key, nonce, clock) ==
    LET message_with_nonce == message \o <<58>> \o Decimal(clock) \o <<58>> \o nonce
    IN  IF Len(key) # KeyLen THEN Err("InvalidKey")
        ELSE Ok(Signature_with_nonce(
                    B64Encode(HmacSha256(key, message_with_nonce)), clock, nonce))

\* Signer::sign_with_nonce
sign_with_nonce(message, key, nonce, clock) ==
    LET message_with_nonce == message \o <<58>> \o Decimal(clock) \o <<58>> \o nonce
        signature == sign_raw(message_with_nonce, clock, key)
    IN  IF ~signature.ok THEN signature
        ELSE Ok(Signature_with_nonce(signature.val, clock, nonce))

\* the check `age.abs() > max_age_minutes * 60` of the three verify functions:
\* Ok(TRUE) when the signature is taken as expired, Ok(FALSE) when it is not
expired(timestamp, max_age_minutes, clock, checks) ==
    LET age == Arith(clock - timestamp, checks)
    IN  IF ~age.ok THEN Panic
        ELSE LET abs == I64Abs(age.val, checks)
             IN  IF ~abs.ok THEN Panic
                 ELSE LET limit == Arith(max_age_minutes * SecondsPerMinute, checks)
                      IN  IF ~limit.ok THEN Panic
                          ELSE Ok(abs.val > limit.val)

\* Signature::verify
verify(self, message, key, max_age_minutes, clock, checks) ==
    LET exp == expired(self.timestamp, max_age_minutes, clock, checks)
    IN  IF ~exp.ok THEN Panic
        ELSE IF exp.val THEN Err("SignatureExpired")
        ELSE LET expected == sign_raw(message, self.timestamp, key)
             IN  IF ~expected.ok THEN expected
                 ELSE Ok(self.signature = expected.val)

\* a Signer::verify that asks for the key before it calls Signature::verify
Signer_verify_key_first(message, signature, key, max_age_minutes, clock, checks) ==
    IF Len(key) # KeyLen THEN Err("InvalidKey")
    ELSE verify(signature, message, key, max_age_minutes, clock, checks)

\* Signer::verify
Signer_verify(message, signature, key, max_age_minutes, clock, checks) ==
    verify(signature, message, key, max_age_minutes, clock, checks)

-----------------------------------------------------------------------------
(* utils/src/signature.rs: SignedRequest *)

\* str::to_uppercase, on ASCII
ToUpper(str) ==
    [i \in 1..Len(str) |-> IF str[i] >= 97 /\ str[i] <= 122 THEN str[i] - 32 ELSE str[i]]

\* [String]::join
RECURSIVE Join(_, _)
Join(parts, sep) ==
    IF Len(parts) = 0 THEN <<>>
    ELSE IF Len(parts) = 1 THEN parts[1]
    ELSE parts[1] \o sep \o Join(Tail(parts), sep)

\* SignedRequest::new
SignedRequest_new(method, path, clock) ==
    [method |-> ToUpper(method), path |-> path, body |-> None, query |-> None,
     timestamp |-> clock, signature |-> <<>>]

\* SignedRequest::with_query
with_query(self, query) == [self EXCEPT !.query = Some(query)]

\* SignedRequest::with_body
with_body(self, body) == [self EXCEPT !.body = Some(body)]

\* SignedRequest::build_message
build_message(self) ==
    LET parts == <<self.method, self.path>>
                    \o (IF self.query # None THEN <<(<<63>> \o self.query[1])>> ELSE <<>>)
                    \o (IF self.body # None THEN <<self.body[1]>> ELSE <<>>)
    IN  Ok(Join(parts, <<124>>))

\* SignedRequest::sign
SignedRequest_sign(self, key) ==
    LET message == build_message(self)
    IN  IF ~message.ok THEN message
        ELSE LET signature == sign_raw(message.val, self.timestamp, key)
             IN  IF ~signature.ok THEN signature
                 ELSE Ok([self EXCEPT !.signature = signature.val])

\* SignedRequest::verify
SignedRequest_verify(self, key, max_age_minutes, clock, checks) ==
    LET exp == expired(self.timestamp, max_age_minutes, clock, checks)
    IN  IF ~exp.ok THEN Panic
        ELSE IF exp.val THEN Err("SignatureExpired")
        ELSE LET message == build_message(self)
             IN  IF ~message.ok THEN message
                 ELSE LET expected == sign_raw(message.val, self.timestamp, key)
                      IN  IF ~expected.ok THEN expected
                          ELSE Ok(self.signature = expected.val)

-----------------------------------------------------------------------------
(* utils/src/signature.rs: signed URL query strings *)

\* the characters urlencoding::encode leaves as they are: A-Z a-z 0-9 - _ . ~
UrlUnreserved(c) ==
    \/ c >= 65 /\ c <= 90
    \/ c >= 97 /\ c <= 122
    \/ c >= 48 /\ c <= 57
    \/ c \in {45, 95, 46, 126}

HexDigit(v) == IF v < 10 THEN 48 + v ELSE 55 + v

\* urlencoding::encode of the bytes s[lo..hi]: %XX for every other byte
RECURSIVE UrlEncodeRange(_, _, _)
UrlEncodeRange(s, lo, hi) ==
    IF lo > hi THEN <<>>
    ELSE IF lo = hi
         THEN IF UrlUnreserved(s[lo]) THEN <<s[lo]>>
              ELSE <<37, HexDigit(s[lo] \div 16), HexDigit(s[lo] % 16)>>
    ELSE LET mid == (lo + hi) \div 2
         IN  UrlEncodeRange(s, lo, mid) \o UrlEncodeRange(s, mid + 1, hi)

\* urlencoding::encode
UrlEncode(s) == UrlEncodeRange(s, 1, Len(s))

\* "&signature="
SignatureDelim == <<38, 115, 105, 103, 110, 97, 116, 117, 114, 101, 61>>

\* "&timestamp="
TimestampDelim == <<38, 116, 105, 109, 101, 115, 116, 97, 109, 112, 61>>

\* the query string of create_signed_url: key=value pairs, each side
\* url-encoded, joined by "&"
query_string(params) ==
    Join([i \in 1..Len(params) |->
            UrlEncode(params[i][1]) \o <<61>> \o UrlEncode(params[i][2])], <<38>>)

\* format!("{}&signature={}&timestamp={}", ..)
signed_query(query, signature, timestamp) ==
    query \o SignatureDelim \o signature \o TimestampDelim \o timestamp

\* create_signed_url, clock being what chrono::Utc::now().timestamp() returns
create_signed_url(path, params, key, clock) ==
    LET full_message == path \o <<63>> \o query_string(params)
        signature == sign(full_message, key, clock)
    IN  IF ~signature.ok THEN signature
        ELSE Ok(signed_query(query_string(params),
                             UrlEncode(signature.val.signature),
                             Decimal(signature.val.timestamp)))

\* where the pattern d occurs in s (neither delimiter can overlap itself)
Matches(s, d) ==
    {i \in 1..(Len(s) - Len(d) + 1) : SubSeq(s, i, i + Len(d) - 1) = d}

\* str::split(d).collect(): the pieces of s between the occurrences of d
Split(s, d) ==
    LET M == Matches(s, d)
        n == Cardinality(M)
        at(k) == CHOOSE i \in M : Cardinality({j \in M : j < i}) = k - 1
    IN  [k \in 1..(n + 1) |->
            SubSeq(s, IF k = 1 THEN 1 ELSE at(k - 1) + Len(d),
                      IF k = n + 1 THEN Len(s) ELSE at(k) - 1)]

\* the number written by the digits s[1..n], saturating just above the
\* largest magnitude an i64 holds
RECURSIVE DigitsValue(_, _)
DigitsValue(s, n) ==
    IF n = 0 THEN 0
    ELSE LET v == DigitsValue(s, n - 1) * 10 + (s[n] - 48)
         IN  IF v > I64Max + 2 THEN I64Max + 2 ELSE v

\* str::parse::<i64>: an optional sign and at least one digit, in range
ParseI64(s) ==
    LET signed == Len(s) > 0 /\ s[1] \in {43, 45}
        digits == IF signed THEN Tail(s) ELSE s
        value == IF signed /\ s[1] = 45 THEN -DigitsValue(digits, Len(digits))
                 ELSE DigitsValue(digits, Len(digits))
    IN  IF Len(digits) = 0 THEN Err("ParseIntError")
        ELSE IF \E i \in 1..Len(digits) : digits[i] < 48 \/ digits[i] > 57
             THEN Err("ParseIntError")
        ELSE IF ~InI64(value) THEN Err("ParseIntError")
        ELSE Ok(value)

\* Signer::quick_verify
quick_verify(message, signature, timestamp, key, max_age_minutes, clock, checks) ==
    LET exp == expired(timestamp, max_age_minutes, clock, checks)
    IN  IF ~exp.ok THEN Panic
        ELSE IF exp.val THEN Err("SignatureExpired")
        ELSE LET expected == sign_raw(message, timestamp, key)
             IN  IF ~expected.ok THEN expected
                 ELSE Ok(signature = expected.val)

\* a verify_signed_url that looks at the key before it parses its input
verify_signed_url_key_first(path, query_with_signature, key, max_age_minutes, clock, checks) ==
    LET parts == Split(query_with_signature, SignatureDelim)
    IN  IF Len(key) # KeyLen THEN Err("InvalidKey")
        ELSE IF Len(parts) # 2 THEN Err("InvalidSignature")
        ELSE
            LET query == parts[1]
                sig_parts == Split(parts[2], TimestampDelim)
            IN  IF Len(sig_parts) # 2 THEN Err("InvalidSignature")
                ELSE
                    LET signature == sig_parts[1]
                        timestamp == ParseI64(sig_parts[2])
                        full_message == path \o <<63>> \o query
                    IN  IF ~timestamp.ok THEN Err("InvalidSignature")
                        ELSE quick_verify(full_message, signature, timestamp.val,
                                          key, max_age_minutes, clock, checks)

\* verify_signed_url
verify_signed_url(path, query_with_signature, key, max_age_minutes, clock, checks) ==
    LET parts == Split(query_with_signature, SignatureDelim)
    IN  IF Len(parts) # 2 THEN Err("InvalidSignature")
        ELSE
            LET query == parts[1]
                sig_parts == Split(parts[2], TimestampDelim)
            IN  IF Len(sig_parts) # 2 THEN Err("InvalidSignature")
                ELSE
                    LET signature == sig_parts[1]
                        timestamp == ParseI64(sig_parts[2])
                        full_message == path \o <<63>> \o query
                    IN  IF ~timestamp.ok THEN Err("InvalidSignature")
                        ELSE quick_verify(full_message, signature, timestamp.val,
                                          key, max_age_minutes, clock, checks)

-----------------------------------------------------------------------------
(* Inputs of the signer and the clock *)

\* how many times the clock advances
MaxTicks == 2

\* by how many seconds the clock advances at a time
ClockSteps == {1, 59, 60}

\* "m", "m2"
Messages == {<<109>>, <<109, 50>>}

KeyShort == [i \in 1..(KeyLen - 1) |-> 0]

KeyLong == [i \in 1..(KeyLen + 1) |-> 0]

SignKeys == {KeyA, KeyShort, KeyLong}

VerifyKeys == {KeyA, KeyB, KeyShort}

\* "n"
NonceTexts == {<<110>>}

\* up to how many earlier presentations of a signature are counted
MaxUses == 2

\* max_age_minutes: negative, zero, one minute, the least one whose seconds
\* do not fit an i64, and the largest
Windows == {-1, 0, 1, I64Max \div SecondsPerMinute + 1, I64Max}

\* values the pub field timestamp may be set to by whoever holds the value
Timestamps(clock) ==
    {I64Min, clock - 2 ^ (WordBits - 1), clock - 61, clock - 60,
     clock + 60, clock + 61, I64Max}

ClockStart ==
    /\ now = 0
    /\ ticks = 0
    /\ overflow_checks \in BOOLEAN

SigStart ==
    /\ sig = NoCall
    /\ vr = NoCall

\* time passes; the clock never goes backwards
Tick(d) ==
    /\ vr = NoCall
    /\ rv = NoCall
    /\ ticks < MaxTicks
    /\ now' = now + d
    /\ ticks' = ticks + 1
    /\ uv = NoCall
    /\ UNCHANGED <<overflow_checks, encVars, sigVars, reqVars, urlVars, hashVars,
                   concVars, otpVars>>

Sign(m, k) ==
    /\ vr = NoCall
    /\ sig' = [op |-> "sign", m |-> m, k |-> k, forged |-> FALSE, uses |-> 0,
               res |-> sign(m, k, now)]
    /\ UNCHANGED <<vr, notSig>>

SignWithNonce(m, k, n) ==
    /\ vr = NoCall
    /\ sig' = [op |-> "sign_with_nonce", m |-> m, k |-> k, forged |-> FALSE,
               uses |-> 0, n |-> n, at |-> now,
               res |-> sign_with_nonce(m, k, n, now)]
    /\ UNCHANGED <<vr, notSig>>

\* the holder of the Signature value sets its pub field timestamp
SetTimestamp(ts) ==
    /\ vr = NoCall
    /\ sig.op = "sign"
    /\ sig.res.ok
    /\ ts # sig.res.val.timestamp
    /\ sig' = [sig EXCEPT !.forged = TRUE,
                          !.res = Ok([sig.res.val EXCEPT !.timestamp = ts])]
    /\ UNCHANGED <<vr, notSig>>

\* the messages a verifier rebuilds for a signature that carries a nonce,
\* format!("{}:{}:{}", message, timestamp, nonce): with the nonce the
\* Signature holds, and with the nonce it was signed with
NoncedMessages ==
    IF sig.op = "sign_with_nonce" /\ sig.res.ok
    THEN {sig.m \o <<58>> \o Decimal(sig.res.val.timestamp) \o <<58>> \o n :
            n \in {sig.n} \cup (IF sig.res.val.nonce # None
                                 THEN {sig.res.val.nonce[1]} ELSE {})}
    ELSE {}

\* the holder of the Signature value sets its pub field nonce
SetNonce(nonce) ==
    /\ vr = NoCall
    /\ sig.op \in {"sign", "sign_with_nonce"}
    /\ sig.res.ok
    /\ nonce # sig.res.val.nonce
    /\ sig' = [sig EXCEPT !.forged = TRUE,
                          !.res = Ok([sig.res.val EXCEPT !.nonce = nonce])]
    /\ UNCHANGED <<vr, notSig>>

Verify(m, k, w) ==
    /\ vr = NoCall
    /\ sig.op \in {"sign", "sign_with_nonce"}
    /\ sig.res.ok
    /\ vr' = [op |-> "verify", m |-> m, k |-> k, w |-> w, now |-> now,
              seen |-> sig.uses,
              res |-> verify(sig.res.val, m, k, w, now, overflow_checks)]
    /\ sig' = [sig EXCEPT !.uses = IF @ < MaxUses THEN @ + 1 ELSE @]
    /\ UNCHANGED notSig

\* the caller takes the result of the call that returned
VerifyReturn ==
    /\ vr # NoCall
    /\ vr' = NoCall
    /\ UNCHANGED <<sig, notSig>>

SigNext ==
    \/ \E d \in ClockSteps : Tick(d)
    \/ \E m \in Messages, k \in SignKeys : Sign(m, k)
    \/ \E ts \in Timestamps(now) : SetTimestamp(ts)
    \/ \E m \in Messages, k \in VerifyKeys, w \in Windows : Verify(m, k, w)
    \/ VerifyReturn

-----------------------------------------------------------------------------
(* Inputs and operations of SignedRequest *)

\* "get", "GET"
Methods == {<<103, 101, 116>>, <<71, 69, 84>>}

\* "/p", "/q"
Paths == {<<47, 112>>, <<47, 113>>}

\* "a"
Queries == {<<97>>}

\* "?a"
Bodies == {<<63, 97>>}

\* max_age_minutes for a request: zero, one minute, and the least one whose
\* seconds do not fit an i64
ReqWindows == {0, 1, I64Max \div SecondsPerMinute + 1}

ReqStart ==
    /\ req = [stage |-> "none"]
    /\ rv = NoCall

ReqNew(method, path) ==
    /\ rv = NoCall
    /\ req' = [stage |-> "built", r |-> SignedRequest_new(method, path, now)]
    /\ UNCHANGED <<rv, notReq>>

ReqWithQuery(query) ==
    /\ rv = NoCall
    /\ req.stage = "built"
    /\ req' = [req EXCEPT !.r = with_query(req.r, query)]
    /\ UNCHANGED <<rv, notReq>>

ReqWithBody(body) ==
    /\ rv = NoCall
    /\ req.stage = "built"
    /\ req' = [req EXCEPT !.r = with_body(req.r, body)]
    /\ UNCHANGED <<rv, notReq>>

\* sign consumes the builder: a signed request, or the error and no request
ReqSign(k) ==
    /\ rv = NoCall
    /\ req.stage = "built"
    /\ LET res == SignedRequest_sign(req.r, k)
       IN  req' = IF res.ok
                  THEN [stage |-> "signed", r |-> res.val, orig |-> res.val, k |-> k]
                  ELSE [stage |-> "failed", err |-> res.err, k |-> k]
    /\ UNCHANGED <<rv, notReq>>

\* whoever carries the signed request sets its pub fields method, path, query
\* and body; timestamp and signature stay as signed
ReqSetFields(method, path, query, body) ==
    /\ rv = NoCall
    /\ req.stage = "signed"
    /\ req.r = req.orig
    /\ req' = [req EXCEPT !.r = [req.orig EXCEPT !.method = method, !.path = path,
                                                 !.query = query, !.body = body]]
    /\ req'.r # req.orig
    /\ UNCHANGED <<rv, notReq>>

ReqVerify(k, w) ==
    /\ rv = NoCall
    /\ req.stage = "signed"
    /\ rv' = [op |-> "verify", k |-> k, w |-> w, now |-> now,
              res |-> SignedRequest_verify(req.r, k, w, now, overflow_checks)]
    /\ UNCHANGED <<req, notReq>>

\* the caller takes the result of the call that returned
ReqVerifyReturn ==
    /\ rv # NoCall
    /\ rv' = NoCall
    /\ UNCHANGED <<req, notReq>>

\* whoever carries the signed request sets its pub field timestamp
ReqSetTimestamp(ts) ==
    /\ rv = NoCall
    /\ req.stage = "signed"
    /\ req.r = req.orig
    /\ ts # req.r.timestamp
    /\ req' = [req EXCEPT !.r.timestamp = ts]
    /\ UNCHANGED <<rv, notReq>>

\* the request in flight is verified with SignedRequest::verify (res) and,
\* from its canonical message, signature and timestamp, with
\* Signer::quick_verify (quick), Signature::verify (sigv) and Signer::verify
\* (signer) on a Signature holding the same signature and timestamp
PathVerify(k, w, nonce) ==
    /\ rv = NoCall
    /\ req.stage = "signed"
    /\ LET message == build_message(req.r).val
           signature == [signature |-> req.r.signature,
                         timestamp |-> req.r.timestamp, nonce |-> nonce]
       IN  rv' = [op |-> "verify", k |-> k, w |-> w, now |-> now, nonce |-> nonce,
                  res |-> SignedRequest_verify(req.r, k, w, now, overflow_checks),
                  quick |-> quick_verify(message, req.r.signature,
                                         req.r.timestamp, k, w, now,
                                         overflow_checks),
                  sigv |-> verify(signature, message, k, w, now, overflow_checks),
                  signer |-> Signer_verify(message, signature, k, w, now,
                                           overflow_checks)]
    /\ UNCHANGED <<req, notReq>>

\* a request signed, carried (its fields or its timestamp set on the way) and
\* verified along every path as time passes
PathNext ==
    \/ Tick(SecondsPerMinute)
    \/ \E method \in Methods, path \in Paths : ReqNew(method, path)
    \/ \E k \in SignKeys : ReqSign(k)
    \/ \E ts \in Timestamps(now) : ReqSetTimestamp(ts)
    \/ \E k \in VerifyKeys, w \in ReqWindows,
          nonce \in {None} \cup {Some(n) : n \in NonceTexts} : PathVerify(k, w, nonce)
    \/ ReqVerifyReturn

ReqNext ==
    \/ \E d \in ClockSteps : Tick(d)
    \/ \E method \in Methods, path \in Paths : ReqNew(method, path)
    \/ \E query \in Queries : ReqWithQuery(query)
    \/ \E body \in Bodies : ReqWithBody(body)
    \/ \E k \in SignKeys : ReqSign(k)
    \/ \E method \in Methods, path \in Paths,
          query \in {None} \cup {Some(q) : q \in Queries},
          body \in {None} \cup {Some(b) : b \in Bodies} :
            ReqSetFields(method, path, query, body)
    \/ \E k \in VerifyKeys, w \in ReqWindows : ReqVerify(k, w)
    \/ ReqVerifyReturn

-----------------------------------------------------------------------------
(* Inputs and operations of the signed URL functions *)

\* no parameters; a=1; k=&= followed by signature=s
UrlParams ==
    { <<>>,
      << <<(<<97>>), (<<49>>)>> >>,
      << <<(<<107>>), (<<38, 61>>)>>,
         <<(<<115, 105, 103, 110, 97, 116, 117, 114, 101>>), (<<115>>)>> >> }

\* what may arrive as timestamp text in place of the one written: the
\* extremes of i64, the first number outside it, a sign, a letter, nothing
TimestampTexts ==
    {Decimal(I64Min), Decimal(I64Max), Decimal(I64Max + 1), <<43, 48>>, <<120>>, <<>>}

\* what the query string may have become on its way to the verifier
UrlVariants(u) ==
    LET query == query_string(u.params)
        made == sign(u.path \o <<63>> \o query, u.k, u.ts).val
        encoded == UrlEncode(made.signature)
    IN  {signed_query(query, made.signature, Decimal(u.ts)),
         signed_query(query, encoded, Decimal(u.ts)) \o SignatureDelim \o <<120>>,
         signed_query(query, encoded, Decimal(u.ts)) \o TimestampDelim \o <<49>>,
         query \o SignatureDelim \o encoded,
         query}
        \cup {signed_query(query, encoded, t) : t \in TimestampTexts}

UrlStart ==
    /\ url = NoCall
    /\ uv = NoCall

UrlCreate(path, params, k) ==
    /\ uv = NoCall
    /\ LET res == create_signed_url(path, params, k, now)
       IN  url' = [op |-> "create", path |-> path, params |-> params, k |-> k,
                   ts |-> now, orig |-> res, res |-> res]
    /\ UNCHANGED <<uv, notUrl>>

\* whoever carries the query string changes it
UrlSetQuery(q) ==
    /\ uv = NoCall
    /\ url.op = "create"
    /\ url.res.ok
    /\ url.res = url.orig
    /\ q # url.orig.val
    /\ url' = [url EXCEPT !.res = Ok(q)]
    /\ UNCHANGED <<uv, notUrl>>

UrlVerify(path, k, w) ==
    /\ uv = NoCall
    /\ url.op = "create"
    /\ url.res.ok
    /\ uv' = [op |-> "verify", path |-> path, k |-> k, w |-> w, now |-> now,
              res |-> verify_signed_url(path, url.res.val, k, w, now,
                                        overflow_checks)]
    /\ UNCHANGED <<url, notUrl>>

\* the caller takes the result of the call that returned
UrlVerifyReturn ==
    /\ uv # NoCall
    /\ uv' = NoCall
    /\ UNCHANGED <<url, notUrl>>

UrlNext ==
    \/ \E d \in ClockSteps : Tick(d)
    \/ \E path \in Paths, params \in UrlParams, k \in SignKeys :
            UrlCreate(path, params, k)
    \/ \E q \in (IF url.op = "create" /\ url.res.ok THEN UrlVariants(url) ELSE {}) :
            UrlSetQuery(q)
    \/ \E path \in Paths, k \in VerifyKeys, w \in ReqWindows : UrlVerify(path, k, w)
    \/ UrlVerifyReturn

-----------------------------------------------------------------------------
(* argon2::Argon2 and its PHC strings, modelled by a salted digest.  The    *)
(* salt and the output are four characters long instead of 22 and 43.       *)

\* str::starts_with
starts_with(s, p) == Len(s) >= Len(p) /\ SubSeq(s, 1, Len(p)) = p

\* the length of a salt, in characters
SaltChars == 4

\* the length of a hash output, in characters
OutputChars == 4

\* "argon2d", "argon2i", "argon2id"
ArgonIdents ==
    {<<97, 114, 103, 111, 110, 50, 100>>, <<97, 114, 103, 111, 110, 50, 105>>,
     <<97, 114, 103, 111, 110, 50, 105, 100>>}

\* "m=<memory>,t=<iterations>,p=<parallelism>"
ArgonParams(memory, iterations, parallelism) ==
    <<109, 61>> \o Decimal(memory) \o <<44, 116, 61>> \o Decimal(iterations)
        \o <<44, 112, 61>> \o Decimal(parallelism)

\* the parameters of Argon2::default()
ArgonDefault == ArgonParams(19456, 2, 1)

\* argon2::Params::new: the costs the primitive accepts
ArgonParamsOk(memory, iterations, parallelism) ==
    /\ parallelism >= 1
    /\ iterations >= 1
    /\ memory >= 8 * parallelism

\* the output of the primitive, as text
ArgonOutput(password, salt, ident, params) ==
    LET data == password \o <<Len(password)>> \o salt \o ident \o params
        d1 == Digest(data, 139)
        d2 == Digest(data, 149)
    IN  [j \in 1..OutputChars |->
            B64Char(IF j = 1 THEN d1 % 64
                    ELSE IF j = 2 THEN (d1 \div 64) % 64
                    ELSE IF j = 3 THEN d2 % 64
                    ELSE (d2 \div 64 + j) % 64)]

\* PasswordHasher::hash_password(..).to_string():
\* $argon2id$v=19$m=..,t=..,p=..$salt$output
ArgonHashPassword(password, salt, params) ==
    <<36>> \o <<97, 114, 103, 111, 110, 50, 105, 100>> \o <<36, 118, 61, 49, 57, 36>>
        \o params \o <<36>> \o salt \o <<36>>
        \o ArgonOutput(password, salt, <<97, 114, 103, 111, 110, 50, 105, 100>>, params)

\* the characters of a PHC identifier: a-z 0-9 -
PhcIdentChar(c) == (c >= 97 /\ c <= 122) \/ (c >= 48 /\ c <= 57) \/ c = 45

\* the characters of a PHC value: the base64 alphabet, and . -
PhcValueChar(c) ==
    \/ c >= 65 /\ c <= 90
    \/ c >= 97 /\ c <= 122
    \/ c >= 48 /\ c <= 57
    \/ c \in {43, 47, 46, 45}

PhcAll(s, Ok_(_)) == \A i \in 1..Len(s) : Ok_(s[i])

\* a parameter string: name=value pairs separated by commas
PhcParamsOk(s) ==
    LET pairs == Split(s, <<44>>)
    IN  \A i \in 1..Len(pairs) :
            LET kv == Split(pairs[i], <<61>>)
            IN  /\ Len(kv) = 2
                /\ Len(kv[1]) > 0 /\ PhcAll(kv[1], PhcIdentChar)
                /\ Len(kv[2]) > 0 /\ PhcAll(kv[2], PhcValueChar)

\* PasswordHash::new: the fields of a PHC string, or an error.  After the
\* identifier come, each optional and in this order, the version, the
\* parameters, the salt and the output.
PhcParse(s) ==
    LET fields == Split(s, <<36>>)
        ident == fields[2]
        rest == SubSeq(fields, 3, Len(fields))
        hasVersion == /\ Len(rest) >= 1
                      /\ starts_with(rest[1], <<118, 61>>)
                      /\ \A i \in 1..Len(rest[1]) : rest[1][i] # 44
        afterVersion == IF hasVersion THEN Tail(rest) ELSE rest
        hasParams == /\ Len(afterVersion) >= 1
                     /\ \E i \in 1..Len(afterVersion[1]) : afterVersion[1][i] = 61
        afterParams == IF hasParams THEN Tail(afterVersion) ELSE afterVersion
        version == IF hasVersion THEN SubSeq(rest[1], 3, Len(rest[1])) ELSE <<>>
    IN  IF Len(s) = 0 \/ fields[1] # <<>> THEN Err("PhcStringInvalid")
        ELSE IF Len(ident) = 0 \/ Len(ident) > 32 \/ ~PhcAll(ident, PhcIdentChar)
             THEN Err("PhcStringInvalid")
        ELSE IF hasVersion /\ (Len(version) = 0
                                \/ \E i \in 1..Len(version) :
                                        version[i] < 48 \/ version[i] > 57)
             THEN Err("PhcStringInvalid")
        ELSE IF hasParams /\ ~PhcParamsOk(afterVersion[1])
             THEN Err("PhcStringInvalid")
        ELSE IF Len(afterParams) > 2 THEN Err("PhcStringTrailingData")
        ELSE IF Len(afterParams) >= 1
                /\ (Len(afterParams[1]) < SaltChars
                    \/ ~PhcAll(afterParams[1], PhcValueChar))
             THEN Err("SaltInvalid")
        ELSE IF Len(afterParams) = 2
                /\ (Len(afterParams[2]) = 0 \/ ~PhcAll(afterParams[2], PhcValueChar))
             THEN Err("B64Encoding")
        ELSE Ok([algorithm |-> ident,
                 version |-> version,
                 params |-> IF hasParams THEN afterVersion[1] ELSE ArgonDefault,
                 salt |-> IF Len(afterParams) >= 1 THEN Some(afterParams[1]) ELSE None,
                 hash |-> IF Len(afterParams) = 2 THEN Some(afterParams[2]) ELSE None])

\* PasswordVerifier::verify_password(..).is_ok()
ArgonVerifyPassword(password, parsed) ==
    /\ parsed.salt # None
    /\ parsed.hash # None
    /\ parsed.algorithm \in ArgonIdents
    /\ parsed.version \in {<<>>, <<49, 54>>, <<49, 57>>}
    /\ ArgonOutput(password, parsed.salt[1], parsed.algorithm, parsed.params)
            = parsed.hash[1]

-----------------------------------------------------------------------------
(* bcrypt::hash and bcrypt::verify, modelled by a salted digest of the      *)
(* NUL-terminated password cut to the 72 bytes the primitive reads.         *)

MIN_COST == 4

MAX_COST == 31

DEFAULT_COST == 12

\* how many bytes of the key bcrypt reads
BcryptMaxLen == 72

\* "2a", "2b", "2x", "2y"
BcryptVersions == {<<50, 97>>, <<50, 98>>, <<50, 120>>, <<50, 121>>}

\* the bytes of the password the primitive works on
BcryptKey(password) ==
    LET vec == password \o <<0>>
    IN  IF Len(vec) > BcryptMaxLen THEN SubSeq(vec, 1, BcryptMaxLen) ELSE vec

BcryptOutput(password, cost, salt) ==
    LET key == BcryptKey(password)
        data == key \o <<Len(key), cost>> \o salt
        d1 == Digest(data, 151)
        d2 == Digest(data, 157)
    IN  [j \in 1..OutputChars |->
            B64Char(IF j = 1 THEN d1 % 64
                    ELSE IF j = 2 THEN (d1 \div 64) % 64
                    ELSE IF j = 3 THEN d2 % 64
                    ELSE (d2 \div 64 + j) % 64)]

\* the cost as bcrypt writes it: two digits
TwoDigits(n) == <<48 + (n \div 10), 48 + (n % 10)>>

\* bcrypt::hash(password, cost), salt being the random salt it drew:
\* $2b$<cost>$<salt><output>
bcrypt_hash(password, cost, salt) ==
    IF cost < MIN_COST \/ cost > MAX_COST THEN Err("CostNotAllowed")
    ELSE Ok(<<36, 50, 98, 36>> \o TwoDigits(cost) \o <<36>> \o salt
                \o BcryptOutput(password, cost, salt))

\* the parts of a stored bcrypt string, or an error
BcryptSplit(hash) ==
    LET parts == Split(hash, <<36>>)
        cost == ParseI64(parts[3])
    IN  IF Len(parts) # 4 \/ parts[1] # <<>> THEN Err("InvalidHash")
        ELSE IF parts[2] \notin BcryptVersions THEN Err("InvalidPrefix")
        ELSE IF ~cost.ok \/ cost.val < 0 THEN Err("InvalidCost")
        ELSE IF Len(parts[4]) # SaltChars + OutputChars THEN Err("InvalidHash")
        ELSE Ok([cost |-> cost.val,
                 salt |-> SubSeq(parts[4], 1, SaltChars),
                 hash |-> SubSeq(parts[4], SaltChars + 1, Len(parts[4]))])

\* bcrypt::verify(password, hash)
bcrypt_verify(password, hash) ==
    LET parts == BcryptSplit(hash)
    IN  IF ~parts.ok THEN parts
        ELSE IF parts.val.cost < MIN_COST \/ parts.val.cost > MAX_COST
             THEN Err("CostNotAllowed")
        ELSE Ok(BcryptOutput(password, parts.val.cost, parts.val.salt)
                    = parts.val.hash)

-----------------------------------------------------------------------------
(* utils/src/hash.rs *)

\* an argon2 that hashes with one salt whatever was drawn
Hash_argon2_fixed_salt(password, salt) ==
    Ok([algorithm |-> "argon2",
        hash |-> ArgonHashPassword(password, <<65, 65, 65, 65>>, ArgonDefault)])

\* Hash::argon2, salt being what SaltString::generate drew
Hash_argon2(password, salt) ==
    Ok([algorithm |-> "argon2",
        hash |-> ArgonHashPassword(password, salt, ArgonDefault)])

\* Hash::argon2_custom
\* a Hash::argon2_custom whose tag names the variant of the algorithm
Hash_argon2_custom_variant_tag(password, memory, iterations, parallelism, salt) ==
    IF ~ArgonParamsOk(memory, iterations, parallelism) THEN Err("HashingFailed")
    ELSE Ok([algorithm |-> "argon2id",
             hash |-> ArgonHashPassword(password, salt,
                            ArgonParams(memory, iterations, parallelism))])

Hash_argon2_custom(password, memory, iterations, parallelism, salt) ==
    IF ~ArgonParamsOk(memory, iterations, parallelism) THEN Err("HashingFailed")
    ELSE Ok([algorithm |-> "argon2",
             hash |-> ArgonHashPassword(password, salt,
                            ArgonParams(memory, iterations, parallelism))])

\* a bcrypt_cost that raises a cost that is too low to the lowest allowed
Hash_bcrypt_cost_raised(password, cost, salt) ==
    LET hashed == bcrypt_hash(password, IF cost < MIN_COST THEN MIN_COST ELSE cost,
                              salt)
    IN  IF ~hashed.ok THEN Err("HashingFailed")
        ELSE Ok([algorithm |-> "bcrypt", hash |-> hashed.val])

\* Hash::bcrypt_cost, salt being what bcrypt::hash drew
Hash_bcrypt_cost(password, cost, salt) ==
    LET hashed == bcrypt_hash(password, cost, salt)
    IN  IF ~hashed.ok THEN Err("HashingFailed")
        ELSE Ok([algorithm |-> "bcrypt", hash |-> hashed.val])

\* Hash::bcrypt
Hash_bcrypt(password, salt) == Hash_bcrypt_cost(password, DEFAULT_COST, salt)

\* Hash::verify_argon2
verify_argon2(self, plaintext) ==
    LET parsed_hash == PhcParse(self.hash)
    IN  IF ~parsed_hash.ok THEN Err("InvalidHash")
        ELSE Ok(ArgonVerifyPassword(plaintext, parsed_hash.val))

\* Hash::verify_bcrypt
verify_bcrypt(self, plaintext) ==
    LET result == bcrypt_verify(plaintext, self.hash)
    IN  IF result.ok THEN Ok(result.val) ELSE Ok(FALSE)

\* Hash::verify
Hash_verify(self, plaintext) ==
    IF self.algorithm = "argon2" THEN verify_argon2(self, plaintext)
    ELSE IF self.algorithm = "bcrypt" THEN verify_bcrypt(self, plaintext)
    ELSE Err("InvalidHash")

\* Hash::to_string
Hash_to_string(self) == self.hash

\* a from_string that takes every "$2" string for bcrypt
Hash_from_string_any2(str) ==
    IF starts_with(str, <<36, 97, 114, 103, 111, 110, 50>>)
    THEN Ok([algorithm |-> "argon2", hash |-> str])
    ELSE IF starts_with(str, <<36, 50>>)
    THEN Ok([algorithm |-> "bcrypt", hash |-> str])
    ELSE Err("InvalidHash")

\* Hash::from_string
Hash_from_string(str) ==
    IF starts_with(str, <<36, 97, 114, 103, 111, 110, 50>>)
    THEN Ok([algorithm |-> "argon2", hash |-> str])
    ELSE IF \/ starts_with(str, <<36, 50, 97, 36>>)
            \/ starts_with(str, <<36, 50, 98, 36>>)
            \/ starts_with(str, <<36, 50, 121, 36>>)
    THEN Ok([algorithm |-> "bcrypt", hash |-> str])
    ELSE Err("InvalidHash")

-----------------------------------------------------------------------------
(* Inputs and operations of Hash *)

\* a password of 72 letters "a" followed by the character c
LongSecret(c) == [i \in 1..(BcryptMaxLen + 1) |-> IF i <= BcryptMaxLen THEN 97 ELSE c]

\* "s", "t", and two long passwords that differ in their last character
Secrets == {<<115>>, <<116>>, LongSecret(49), LongSecret(50)}

\* what the salt generators may draw: "AAAA", "AAAB"
Salts == {<<65, 65, 65, 65>>, <<65, 65, 65, 66>>}

\* stored strings that no hash function wrote: the empty string, "$argon",
\* "x$argon2id", "$argon2 !", "$argon2id", "$argon2id$v=x$AAAA$AAAA",
\* "$argon2id$v=19$m=8,t=1,p=1$AAAA$AAAA$x", "$2a$garbage", "$2b$12$short",
\* "$2y$", "$2x$"
Garbage ==
    { <<>>,
      <<36, 97, 114, 103, 111, 110>>,
      <<120, 36, 97, 114, 103, 111, 110, 50, 105, 100>>,
      <<36, 97, 114, 103, 111, 110, 50, 32, 33>>,
      <<36, 97, 114, 103, 111, 110, 50, 105, 100>>,
      <<36, 97, 114, 103, 111, 110, 50, 105, 100, 36, 118, 61, 120, 36,
        65, 65, 65, 65, 36, 65, 65, 65, 65>>,
      <<36, 97, 114, 103, 111, 110, 50, 105, 100, 36, 118, 61, 49, 57, 36,
        109, 61, 56, 44, 116, 61, 49, 44, 112, 61, 49, 36, 65, 65, 65, 65, 36,
        65, 65, 65, 65, 36, 120>>,
      <<36, 50, 97, 36, 103, 97, 114, 98, 97, 103, 101>>,
      <<36, 50, 98, 36, 49, 50, 36, 115, 104, 111, 114, 116>>,
      <<36, 50, 121, 36>>,
      <<36, 50, 120, 36>> }

HashStart ==
    /\ hsh = NoCall
    /\ hv = NoCall
    /\ kept = NoCall

HashArgon2(secret, salt) ==
    /\ hv = NoCall
    /\ hsh' = [op |-> "argon2", known |-> TRUE, secret |-> secret, salt |-> salt,
               input |-> <<>>, res |-> Hash_argon2(secret, salt)]
    /\ UNCHANGED <<hv, kept, notHash>>

HashBcrypt(secret, salt) ==
    /\ hv = NoCall
    /\ hsh' = [op |-> "bcrypt", known |-> TRUE, secret |-> secret, salt |-> salt,
               input |-> <<>>, res |-> Hash_bcrypt(secret, salt)]
    /\ UNCHANGED <<hv, kept, notHash>>

\* work factors: none, one below the range, its ends, the default, one above
Costs == {0, MIN_COST - 1, MIN_COST, DEFAULT_COST, MAX_COST, MAX_COST + 1}

\* (memory, iterations, parallelism): the least accepted, the defaults, two
\* lanes, and tuples with no iterations, too little memory (for one lane,
\* for two), no lanes
ArgonTuples ==
    {<<8, 1, 1>>, <<19456, 2, 1>>, <<16, 1, 2>>,
     <<8, 0, 1>>, <<7, 1, 1>>, <<8, 1, 2>>, <<8, 1, 0>>}

\* the secrets hashed with chosen costs: "s" and one longer than bcrypt reads
CostSecrets == {<<115>>, LongSecret(49)}

HashBcryptCost(secret, cost, salt) ==
    /\ hv = NoCall
    /\ LET res == Hash_bcrypt_cost(secret, cost, salt)
       IN  hsh' = [op |-> "bcrypt_cost", known |-> res.ok, secret |-> secret,
                   salt |-> salt, input |-> <<>>, cost |-> cost, res |-> res]
    /\ UNCHANGED <<hv, kept, notHash>>

HashArgon2Custom(secret, tuple, salt) ==
    /\ hv = NoCall
    /\ LET res == Hash_argon2_custom(secret, tuple[1], tuple[2], tuple[3], salt)
       IN  hsh' = [op |-> "argon2_custom", known |-> res.ok, secret |-> secret,
                   salt |-> salt, input |-> <<>>, tuple |-> tuple, res |-> res]
    /\ UNCHANGED <<hv, kept, notHash>>

\* the Hash held is written out with to_string and read back with from_string
HashReload ==
    /\ hv = NoCall
    /\ hsh.op \in {"argon2", "bcrypt", "argon2_custom", "bcrypt_cost"}
    /\ hsh.res.ok
    /\ hsh' = [op |-> "from_string", known |-> TRUE, secret |-> hsh.secret,
               salt |-> hsh.salt, input |-> Hash_to_string(hsh.res.val),
               res |-> Hash_from_string(Hash_to_string(hsh.res.val))]
    /\ UNCHANGED <<hv, kept, notHash>>

\* a stored string of unknown origin is read with from_string
HashFromString(str) ==
    /\ hv = NoCall
    /\ hsh' = [op |-> "from_string", known |-> FALSE, secret |-> <<>>,
               salt |-> <<>>, input |-> str, res |-> Hash_from_string(str)]
    /\ UNCHANGED <<hv, kept, notHash>>

\* the caller stores the Hash that Hash::argon2 returned and lets go of it
HashKeep ==
    /\ hv = NoCall
    /\ hsh.op = "argon2"
    /\ hsh.res.ok
    /\ kept' = hsh
    /\ hsh' = NoCall
    /\ UNCHANGED <<hv, notHash>>

HashVerify(secret) ==
    /\ hv = NoCall
    /\ hsh # NoCall
    /\ hsh.res.ok
    /\ hv' = [op |-> "verify", secret |-> secret,
              res |-> Hash_verify(hsh.res.val, secret)]
    /\ UNCHANGED <<hsh, kept, notHash>>

\* the caller takes the result of the call that returned
HashVerifyReturn ==
    /\ hv # NoCall
    /\ hv' = NoCall
    /\ UNCHANGED <<hsh, kept, notHash>>

HashNext ==
    \/ \E secret \in Secrets, salt \in Salts : HashArgon2(secret, salt)
    \/ \E secret \in Secrets, salt \in Salts : HashBcrypt(secret, salt)
    \/ \E secret \in CostSecrets, cost \in Costs, salt \in Salts :
            HashBcryptCost(secret, cost, salt)
    \/ \E secret \in CostSecrets, tuple \in ArgonTuples, salt \in Salts :
            HashArgon2Custom(secret, tuple, salt)
    \/ HashReload
    \/ HashKeep
    \/ \E str \in Garbage : HashFromString(str)
    \/ \E secret \in Secrets : HashVerify(secret)
    \/ HashVerifyReturn

-----------------------------------------------------------------------------
(* Concurrent calls on one shared AesGcmEncryption.  encrypt and decrypt    *)
(* take &self; each call is followed statement by statement, its local      *)
(* variables being fields of the thread's record.                           *)

Threads == {1, 2}

ThreadIdle ==
    [pc |-> "idle", op |-> "none", pt |-> <<>>, token |-> <<>>, i |-> 0,
     nonce_bytes |-> <<>>, data |-> <<>>, res |-> NoCall]

ConcStart == thr = [t \in Threads |-> ThreadIdle]

\* the encrypt calls begun and not yet returned
Encrypting == {t \in Threads : thr[t].op = "encrypt"}

\* a nonce buffer that all calls share: the one filled last is what they read
nonce_shared(t) ==
    IF \E u \in Threads \ {t} : thr[u].pc \in {"seal", "encode"}
    THEN thr[CHOOSE u \in Threads \ {t} : thr[u].pc \in {"seal", "encode"}].nonce_bytes
    ELSE thr[t].nonce_bytes

\* the nonce buffer the call of thread t passes to the cipher: its own local
nonce_of(t) == thr[t].nonce_bytes

\* encrypt is entered: let mut nonce_bytes = [0u8; 12]
ConcCallEncrypt(t, p) ==
    /\ thr[t].pc = "idle"
    /\ Len(issued) + Cardinality(Encrypting) < MaxCalls
    /\ thr' = [thr EXCEPT ![t] = [ThreadIdle EXCEPT !.pc = "fill", !.op = "encrypt",
                    !.pt = p, !.nonce_bytes = [i \in 1..NonceLen |-> 0]]]
    /\ UNCHANGED <<cipher, issued, notConc>>

\* OsRng.fill_bytes(&mut nonce_bytes)
ConcFillNonce(t, n) ==
    /\ thr[t].pc = "fill"
    /\ thr' = [thr EXCEPT ![t].pc = "seal", ![t].nonce_bytes = n]
    /\ UNCHANGED <<cipher, issued, notConc>>

\* self.cipher.encrypt(nonce, plaintext.as_bytes())
ConcSeal(t) ==
    /\ thr[t].pc = "seal"
    /\ LET ciphertext == Aes256GcmEncrypt(cipher, nonce_of(t), thr[t].pt)
       IN  thr' = IF ciphertext.ok
                  THEN [thr EXCEPT ![t].pc = "encode", ![t].data = ciphertext.val]
                  ELSE [thr EXCEPT ![t].pc = "done",
                                   ![t].res = Err("DecryptionFailed")]
    /\ UNCHANGED <<cipher, issued, notConc>>

\* combined = nonce_bytes followed by ciphertext; Ok(BASE64.encode(&combined))
ConcEncode(t) ==
    /\ thr[t].pc = "encode"
    /\ thr' = [thr EXCEPT ![t].pc = "done",
                ![t].res = Ok(B64Encode(thr[t].nonce_bytes \o thr[t].data))]
    /\ UNCHANGED <<cipher, issued, notConc>>

\* decrypt is entered with the i-th token issued
ConcCallDecrypt(t, i) ==
    /\ thr[t].pc = "idle"
    /\ issued[i].out.ok
    /\ thr' = [thr EXCEPT ![t] = [ThreadIdle EXCEPT !.pc = "decode", !.op = "decrypt",
                    !.i = i, !.token = issued[i].out.val]]
    /\ UNCHANGED <<cipher, issued, notConc>>

\* BASE64.decode(ciphertext), the length check and the split at byte 12
ConcDecode(t) ==
    /\ thr[t].pc = "decode"
    /\ LET combined == B64Decode(thr[t].token)
       IN  thr' = IF ~combined.ok \/ Len(combined.val) < MinTokenLen
                  THEN [thr EXCEPT ![t].pc = "done",
                                   ![t].res = Err("InvalidCiphertext")]
                  ELSE [thr EXCEPT ![t].pc = "open",
                            ![t].nonce_bytes = SubSeq(combined.val, 1, NonceLen),
                            ![t].data = SubSeq(combined.val, NonceLen + 1,
                                               Len(combined.val))]
    /\ UNCHANGED <<cipher, issued, notConc>>

\* self.cipher.decrypt(nonce, encrypted_data)
ConcOpen(t) ==
    /\ thr[t].pc = "open"
    /\ LET plaintext == Aes256GcmDecrypt(cipher, nonce_of(t), thr[t].data)
       IN  thr' = IF plaintext.ok
                  THEN [thr EXCEPT ![t].pc = "utf8", ![t].data = plaintext.val]
                  ELSE [thr EXCEPT ![t].pc = "done",
                                   ![t].res = Err("DecryptionFailed")]
    /\ UNCHANGED <<cipher, issued, notConc>>

\* String::from_utf8(plaintext)
ConcUtf8(t) ==
    /\ thr[t].pc = "utf8"
    /\ thr' = [thr EXCEPT ![t].pc = "done",
                ![t].res = IF FromUtf8(thr[t].data).ok THEN Ok(thr[t].data)
                           ELSE Err("DecryptionFailed")]
    /\ UNCHANGED <<cipher, issued, notConc>>

\* the call returns to its caller; a token produced is from now on in use
ConcReturn(t) ==
    /\ thr[t].pc = "done"
    /\ issued' = IF thr[t].op = "encrypt"
                 THEN Append(issued, [pt |-> thr[t].pt, nonce |-> thr[t].nonce_bytes,
                                      out |-> thr[t].res])
                 ELSE issued
    /\ thr' = [thr EXCEPT ![t] = ThreadIdle]
    /\ UNCHANGED <<cipher, notConc>>

ConcNext ==
    \E t \in Threads :
        \/ \E p \in Plaintexts : ConcCallEncrypt(t, p)
        \/ \E n \in Nonces : ConcFillNonce(t, n)
        \/ ConcSeal(t)
        \/ ConcEncode(t)
        \/ \E i \in 1..Len(issued) : ConcCallDecrypt(t, i)
        \/ ConcDecode(t)
        \/ ConcOpen(t)
        \/ ConcUtf8(t)
        \/ ConcReturn(t)

-----------------------------------------------------------------------------
(* utils/src/hash.rs: generate_otp *)

\* a gen_range that takes its upper end in: lo..=hi
gen_range_inclusive(lo, hi) == lo..hi

\* Rng::gen_range(lo..hi): what may be drawn from the half-open range
gen_range(lo, hi) == lo..(hi - 1)

\* generate_otp(digits), draws[i] being what the i-th gen_range(0..10) drew:
\* each draw is written with to_string and the pieces are collected
generate_otp(digits, draws) ==
    Join([i \in 1..digits |-> Decimal(draws[i])], <<>>)

\* the longest OTP asked for
MaxOtpDigits == 6

\* the draws followed: the least and the greatest of the range, and 5
OtpDraws ==
    LET range == gen_range(0, 10)
    IN  {d \in range : \A e \in range : d <= e}
            \cup {d \in range : \A e \in range : d >= e} \cup {5}

OtpStart == otp = NoCall

OtpCall(digits, draws) ==
    /\ otp = NoCall
    /\ otp' = [op |-> "generate_otp", digits |-> digits, draws |-> draws,
               res |-> generate_otp(digits, draws)]
    /\ UNCHANGED <<encVars, clockVars, sigVars, reqVars, urlVars, hashVars,
                   concVars>>

\* the caller takes the string that was returned
OtpReturn ==
    /\ otp # NoCall
    /\ otp' = NoCall
    /\ UNCHANGED <<encVars, clockVars, sigVars, reqVars, urlVars, hashVars,
                   concVars>>

OtpNext ==
    \/ \E digits \in 0..MaxOtpDigits :
            \E draws \in [1..digits -> OtpDraws] : OtpCall(digits, draws)
    \/ OtpReturn

-----------------------------------------------------------------------------
(* Specifications *)

\* the parts of the state that the component under study leaves at rest
RestOfState == UrlStart /\ HashStart /\ ConcStart /\ OtpStart

Init == EncStart /\ ClockStart /\ SigStart /\ ReqStart /\ RestOfState

\* the encryptor alone
EncInit == EncStart /\ ClockStart /\ SigStart /\ ReqStart /\ RestOfState

EncSpec == EncInit /\ [][EncNext]_vars

\* Signature and Signer alone
SigInit == EncIdle /\ ClockStart /\ SigStart /\ ReqStart /\ RestOfState

SigSpec == SigInit /\ [][SigNext]_vars

\* SignedRequest alone
ReqInit == EncIdle /\ ClockStart /\ SigStart /\ ReqStart /\ RestOfState

ReqSpec == ReqInit /\ [][ReqNext]_vars

\* the signed URL functions alone
UrlInit == EncIdle /\ ClockStart /\ SigStart /\ ReqStart /\ RestOfState

UrlSpec == UrlInit /\ [][UrlNext]_vars

\* the signed URL functions alone, the clock advancing a minute at a time
UrlMinuteNext ==
    \/ Tick(SecondsPerMinute)
    \/ \E path \in Paths, params \in UrlParams, k \in SignKeys :
            UrlCreate(path, params, k)
    \/ \E q \in (IF url.op = "create" /\ url.res.ok THEN UrlVariants(url) ELSE {}) :
            UrlSetQuery(q)
    \/ \E path \in Paths, k \in VerifyKeys, w \in ReqWindows : UrlVerify(path, k, w)
    \/ UrlVerifyReturn

UrlMinuteInit == EncIdle /\ ClockStart /\ SigStart /\ ReqStart /\ RestOfState

UrlMinuteSpec == UrlMinuteInit /\ [][UrlMinuteNext]_vars

\* the text and byte APIs of the encryptor
ByteInit == EncStart /\ ClockStart /\ SigStart /\ ReqStart /\ RestOfState

ByteSpec == ByteInit /\ [][ByteNext]_vars

\* the OTP generator alone
OtpInit == EncIdle /\ ClockStart /\ SigStart /\ ReqStart /\ RestOfState

OtpSpec == OtpInit /\ [][OtpNext]_vars

\* the verification paths side by side
PathInit == EncIdle /\ ClockStart /\ SigStart /\ ReqStart /\ RestOfState

PathSpec == PathInit /\ [][PathNext]_vars

\* Hash alone
HashInit == EncIdle /\ ClockStart /\ SigStart /\ ReqStart /\ RestOfState

HashSpec == HashInit /\ [][HashNext]_vars

\* the four signing functions alone, at one clock value
SignNext ==
    \/ \E m \in Messages, k \in SignKeys : Sign(m, k)
    \/ \E m \in Messages, k \in SignKeys, n \in NonceTexts : SignWithNonce(m, k, n)
    \/ \E method \in Methods, path \in Paths : ReqNew(method, path)
    \/ \E k \in SignKeys : ReqSign(k)
    \/ \E path \in Paths, params \in UrlParams, k \in SignKeys :
            UrlCreate(path, params, k)

SignInit == EncIdle /\ ClockStart /\ SigStart /\ ReqStart /\ RestOfState

SignSpec == SignInit /\ [][SignNext]_vars

\* signatures with and without a nonce, signed and verified as time passes
NonceNext ==
    \/ \E d \in ClockSteps : Tick(d)
    \/ \E m \in Messages, k \in SignKeys : Sign(m, k)
    \/ \E m \in Messages, k \in SignKeys, n \in NonceTexts : SignWithNonce(m, k, n)
    \/ \E nonce \in {None} \cup {Some(n) : n \in NonceTexts \cup {<<120>>}} :
            SetNonce(nonce)
    \/ \E m \in Messages \cup NoncedMessages, k \in VerifyKeys, w \in ReqWindows :
            Verify(m, k, w)
    \/ VerifyReturn

NonceInit == EncIdle /\ ClockStart /\ SigStart /\ ReqStart /\ RestOfState

NonceSpec == NonceInit /\ [][NonceNext]_vars

\* concurrent calls on one encryptor
ConcInit == EncStart /\ ClockStart /\ SigStart /\ ReqStart /\ RestOfState

ConcSpec == ConcInit /\ [][ConcNext]_vars

\* every component
Next ==
    \/ EncNext \/ SigNext \/ ReqNext \/ UrlNext \/ HashNext \/ ConcNext
    \/ SignNext \/ NonceNext \/ UrlMinuteNext \/ ByteNext \/ OtpNext \/ PathNext

Spec == Init /\ [][Next]_vars

-----------------------------------------------------------------------------
(* Claims on the encryptor, under EncSpec *)

Intact == dec.op = "decrypt" /\ dec.pos = 0

Flipped == dec.op = "decrypt" /\ dec.pos > 0

\* C1: decrypt(encrypt(p)) under the key of the encryptor returns Ok(p), for
\* every plaintext (the empty one included) and whatever nonce was drawn.
C1_RoundTrip ==
    (Intact /\ dec.key = cipher) => dec.res = Ok(issued[dec.i].pt)

C1_Witness ==
    /\ Intact
    /\ dec.key = cipher
    /\ issued[dec.i].pt = <<>>
    /\ dec.res = Ok(<<>>)

\* C2 as claimed: a token with any single bit flipped fails to decrypt under
\* the same key with DecryptionFailed and with no other error.
C2_FlipGivesDecryptionFailed ==
    Flipped => dec.res = Err("DecryptionFailed")

\* C2 as amended: a token with any single bit flipped never decrypts under the
\* same key; it fails with DecryptionFailed when the flipped text is still
\* canonical base64 and with InvalidCiphertext when it is not.
C2_FlipNeverDecrypts ==
    Flipped =>
        /\ ~dec.res.ok
        /\ dec.res.err =
             IF B64Valid(dec.token) THEN "DecryptionFailed" ELSE "InvalidCiphertext"

C2_Witness ==
    /\ Flipped
    /\ dec.key = cipher
    /\ dec.res = Err("DecryptionFailed")

C4_TokensAlwaysDiffer ==
    /\ \A i, j \in 1..Len(issued) : i # j => issued[i].out # issued[j].out
    /\ (Intact /\ dec.key = cipher) => dec.res = Ok(issued[dec.i].pt)

\* C4 as amended: any two encrypt calls of one encryptor whose nonce draws
\* differ return different tokens (even on identical plaintext), and each
\* token decrypts back to its plaintext.
C4_TokensDifferByNonce ==
    /\ \A i, j \in 1..Len(issued) :
            issued[i].nonce # issued[j].nonce => issued[i].out # issued[j].out
    /\ \A i \in 1..Len(issued) : issued[i].out.ok
    /\ (Intact /\ dec.key = cipher) => dec.res = Ok(issued[dec.i].pt)

C4_Witness ==
    /\ Len(issued) = 2
    /\ issued[1].pt = issued[2].pt
    /\ issued[1].nonce # issued[2].nonce
    /\ issued[1].out # issued[2].out
    /\ Intact
    /\ dec.i = 2
    /\ dec.res = Ok(issued[2].pt)

-----------------------------------------------------------------------------
(* Claims on Signature and Signer, under SigSpec *)

Verified == vr.op = "verify"

\* the signature being verified is the one Signer::sign returned, untouched
Genuine == ~sig.forged

Timestamp == sig.res.val.timestamp

\* |clock - timestamp| and max_age_minutes * 60 as mathematical integers
Distance == IF vr.now >= Timestamp THEN vr.now - Timestamp ELSE Timestamp - vr.now

WindowSeconds == vr.w * SecondsPerMinute

\* max_age_minutes * 60 fits an i64
WindowFits == InI64(WindowSeconds)

\* C5: immediately after sign(m, k) with a 32-byte key, clock unchanged,
\* verify(m, k, max_age_minutes) returns Ok(true) for every non-negative
\* max_age_minutes, 0 included.
C5_FreshSignatureVerifies ==
    (Verified /\ Genuine /\ vr.now = Timestamp /\ vr.m = sig.m /\ vr.k = sig.k
        /\ vr.w >= 0)
    => vr.res = Ok(TRUE)

\* C5 where max_age_minutes * 60 fits an i64: the fresh signature verifies.
C5_FreshSignatureVerifiesWindowFits ==
    (Verified /\ Genuine /\ vr.now = Timestamp /\ vr.m = sig.m /\ vr.k = sig.k
        /\ vr.w >= 0 /\ WindowFits)
    => vr.res = Ok(TRUE)

\* C6: for a signature made by sign(m, k) and verified inside the time window,
\* a different message, or a different 32-byte key, gives Ok(false): not an
\* error and never Ok(true).
C6_OtherMessageOrKeyIsFalse ==
    (Verified /\ Genuine /\ Distance <= WindowSeconds
        /\ \/ (vr.m # sig.m /\ vr.k = sig.k)
           \/ (vr.m = sig.m /\ vr.k # sig.k /\ Len(vr.k) = KeyLen))
    => vr.res = Ok(FALSE)

\* C6 where max_age_minutes * 60 fits an i64: Ok(false) for a different
\* message or a different 32-byte key.
C6_OtherMessageOrKeyIsFalseWindowFits ==
    (Verified /\ Genuine /\ Distance <= WindowSeconds /\ WindowFits
        /\ \/ (vr.m # sig.m /\ vr.k = sig.k)
           \/ (vr.m = sig.m /\ vr.k # sig.k /\ Len(vr.k) = KeyLen))
    => vr.res = Ok(FALSE)

\* C7: for every timestamp, clock value and window, verify returns
\* Err(SignatureExpired) exactly when |now - timestamp| > max_age_minutes * 60.
C7_ExpiredExactlyOutsideWindow ==
    Verified => (vr.res = Err("SignatureExpired") <=> Distance > WindowSeconds)

\* C7 where now - timestamp, its absolute value and max_age_minutes * 60 all
\* fit an i64: SignatureExpired exactly outside the symmetric window.
C7_ExpiredExactlyOutsideWindowNoOverflow ==
    (Verified /\ WindowFits /\ Distance <= I64Max)
    => (vr.res = Err("SignatureExpired") <=> Distance > WindowSeconds)

\* C8: a signature made by sign and verified with its message and key under a
\* fixed window w >= 0 verifies at every clock value up to signing time + w * 60
\* and is SignatureExpired at every later one.
C8_ValidUntilExpiryThenExpired ==
    (Verified /\ Genuine /\ vr.m = sig.m /\ vr.k = sig.k /\ vr.w >= 0)
    => /\ vr.now <= Timestamp + WindowSeconds => vr.res = Ok(TRUE)
       /\ vr.now > Timestamp + WindowSeconds => vr.res = Err("SignatureExpired")

\* C8 where w * 60 fits an i64.
C8_ValidUntilExpiryThenExpiredWindowFits ==
    (Verified /\ Genuine /\ vr.m = sig.m /\ vr.k = sig.k /\ vr.w >= 0
        /\ WindowFits)
    => /\ vr.now <= Timestamp + WindowSeconds => vr.res = Ok(TRUE)
       /\ vr.now > Timestamp + WindowSeconds => vr.res = Err("SignatureExpired")

-----------------------------------------------------------------------------
(* Claims on SignedRequest, under ReqSpec *)

ReqVerified == rv.op = "verify" /\ req.stage = "signed"

Fields(r) == <<r.method, r.path, r.query, r.body>>

ReqDistance ==
    IF rv.now >= req.r.timestamp THEN rv.now - req.r.timestamp
    ELSE req.r.timestamp - rv.now

ReqWindowSeconds == rv.w * SecondsPerMinute

\* C9: when the request as signed verifies under k, every request with the
\* same timestamp and signature but another method, path, query or body
\* verifies as Ok(false), and the two have different canonical messages.
C9_ChangedFieldsNeverVerify ==
    (ReqVerified
        /\ SignedRequest_verify(req.orig, rv.k, rv.w, rv.now, overflow_checks) = Ok(TRUE)
        /\ Fields(req.r) # Fields(req.orig))
    => /\ rv.res = Ok(FALSE)
       /\ build_message(req.r) # build_message(req.orig)

\* C9 for a change that alters the canonical message: the changed request
\* verifies as Ok(false).
C9_ChangedMessageNeverVerifies ==
    (ReqVerified
        /\ SignedRequest_verify(req.orig, rv.k, rv.w, rv.now, overflow_checks) = Ok(TRUE)
        /\ build_message(req.r) # build_message(req.orig))
    => rv.res = Ok(FALSE)

\* C10: a request built by new (method in any letter case), with_query,
\* with_body and sign(k) verifies under k as Ok(true) as long as the clock is
\* within w * 60 seconds of the timestamp captured by new.
C10_SignedRequestVerifies ==
    (ReqVerified /\ req.r = req.orig /\ rv.k = req.k
        /\ ReqDistance <= ReqWindowSeconds)
    => rv.res = Ok(TRUE)

\* C10 where w * 60 fits an i64.
C10_SignedRequestVerifiesWindowFits ==
    (ReqVerified /\ req.r = req.orig /\ rv.k = req.k
        /\ ReqDistance <= ReqWindowSeconds /\ InI64(ReqWindowSeconds))
    => rv.res = Ok(TRUE)

-----------------------------------------------------------------------------
(* Claims on the signed URL functions, under UrlSpec *)

UrlVerified == uv.op = "verify"

\* the query string being verified is the one create_signed_url returned
UrlGenuine == url.res = url.orig

\* the verifier is given the path and the key of the creator, at the clock
\* value of the creation
UrlSameCall == uv.path = url.path /\ uv.k = url.k /\ uv.now = url.ts

UrlWindowFits == InI64(uv.w * SecondsPerMinute)

\* C11: verify_signed_url(path, create_signed_url(path, params, k), k, w),
\* called immediately after the creation with w >= 0, returns Ok(true) for
\* every path, every parameter list and every 32-byte key.
C11_SignedUrlVerifies ==
    (UrlVerified /\ UrlGenuine /\ UrlSameCall /\ uv.w >= 0) => uv.res = Ok(TRUE)

\* what the code does instead: with a window whose seconds fit an i64, the
\* query string returned by create_signed_url never verifies; it gives
\* Ok(false), or InvalidSignature when a parameter other than the first is
\* named "signature"
C11_SignedUrlNeverVerifies ==
    (UrlVerified /\ UrlGenuine /\ UrlSameCall /\ uv.w >= 0 /\ UrlWindowFits)
        => uv.res \in {Ok(FALSE), Err("InvalidSignature")}

\* and the same query string with the signature percent-decoded does verify,
\* unless a parameter name adds a second "&signature="
C11_DecodedSignatureVerifies ==
    (/\ UrlVerified /\ UrlSameCall /\ uv.w >= 0 /\ UrlWindowFits
     /\ Len(Split(query_string(url.params), SignatureDelim)) = 1
     /\ url.res.val = signed_query(query_string(url.params),
                          sign(url.path \o <<63>> \o query_string(url.params),
                               url.k, url.ts).val.signature,
                          Decimal(url.ts)))
        => uv.res = Ok(TRUE)

-----------------------------------------------------------------------------
(* Claims on Hash, under HashSpec *)

HashVerified == hv.op = "verify"

Stored == hsh.res.val

\* C12: a Hash created from secret s by Hash::argon2 or Hash::bcrypt verifies
\* s as Ok(true) and every other secret as Ok(false), and so does
\* Hash::from_string(h.to_string()).
C12_HashRoundTrip ==
    /\ (hsh # NoCall /\ hsh.known) => hsh.res.ok
    /\ (HashVerified /\ hsh.known) => hv.res = Ok(hv.secret = hsh.secret)

\* what the code does: bcrypt hashes tell two secrets apart by the first 72
\* bytes of the NUL-terminated secret only; argon2 hashes by all of it
C12_HashRoundTripFirstBytes ==
    /\ (hsh # NoCall /\ hsh.known) => hsh.res.ok
    /\ (HashVerified /\ hsh.known) =>
            hv.res = Ok(IF Stored.algorithm = "bcrypt"
                        THEN BcryptKey(hv.secret) = BcryptKey(hsh.secret)
                        ELSE hv.secret = hsh.secret)

\* the stored string is a complete hash in the format of its algorithm
WellFormed(h) ==
    IF h.algorithm = "argon2"
    THEN /\ PhcParse(h.hash).ok
         /\ PhcParse(h.hash).val.salt # None
         /\ PhcParse(h.hash).val.hash # None
         /\ PhcParse(h.hash).val.algorithm \in ArgonIdents
    ELSE BcryptSplit(h.hash).ok

\* C13: Hash::verify returns Err(InvalidHash) whenever the stored string
\* cannot be parsed by its algorithm, argon2 or bcrypt; Ok(false) is returned
\* only for a well-formed hash whose secret does not match; it never panics.
C13_UnparseableIsInvalidHash ==
    HashVerified =>
        /\ ~WellFormed(Stored) => hv.res = Err("InvalidHash")
        /\ hv.res = Ok(FALSE) => WellFormed(Stored)
        /\ hv.res # Panic

\* what the code does: InvalidHash is returned exactly for argon2-tagged
\* strings that are not PHC strings; every bcrypt-tagged string that
\* bcrypt::verify rejects gives Ok(false)
C13_InvalidHashOnlyFromPhcParser ==
    HashVerified =>
        /\ hv.res = Err("InvalidHash")
             <=> (Stored.algorithm = "argon2" /\ ~PhcParse(Stored.hash).ok)
        /\ hv.res # Err("InvalidHash") => hv.res \in {Ok(TRUE), Ok(FALSE)}

\* the prefixes from_string knows: "$argon2", and "$2a$", "$2b$", "$2y$"
ArgonPrefixed(s) == starts_with(s, <<36, 97, 114, 103, 111, 110, 50>>)

BcryptPrefixed(s) ==
    \E v \in {97, 98, 121} : Len(s) >= 4 /\ SubSeq(s, 1, 4) = <<36, 50, v, 36>>

\* C14: Hash::from_string(s) is Ok exactly when s starts with "$argon2",
\* "$2a$", "$2b$" or "$2y$", tagged argon2 for the first and bcrypt for the
\* others, with s unchanged as the encoded hash; every other string, the
\* empty one included, gives Err(InvalidHash).
C14_FromStringByPrefix ==
    hsh.op = "from_string" =>
        /\ hsh.res.ok <=> (ArgonPrefixed(hsh.input) \/ BcryptPrefixed(hsh.input))
        /\ hsh.res.ok =>
             /\ Stored.hash = hsh.input
             /\ Stored.algorithm =
                    IF ArgonPrefixed(hsh.input) THEN "argon2" ELSE "bcrypt"
        /\ ~hsh.res.ok => hsh.res = Err("InvalidHash")

C14_Witness ==
    /\ hsh.op = "from_string"
    /\ hsh.input = <<36, 50, 121, 36>>
    /\ hsh.res = Ok([algorithm |-> "bcrypt", hash |-> <<36, 50, 121, 36>>])
    /\ HashVerified

-----------------------------------------------------------------------------
(* Further claims on Signature and Signer, under SigSpec *)

\* C15: verification never panics and its arithmetic never overflows: for
\* every i64 timestamp (i64::MIN and i64::MAX included) and every i64
\* max_age_minutes, now - timestamp, its absolute value and
\* max_age_minutes * 60 stay inside i64 and verify returns a Result.
C15_VerifyNeverOverflows ==
    Verified =>
        /\ InI64(vr.now - Timestamp)
        /\ InI64(Distance)
        /\ InI64(WindowSeconds)
        /\ vr.res # Panic

\* what the code does: verify returns a Result whenever the three values fit
\* an i64, and in a build without overflow checks always
C15_PanicsOnlyOnOverflowWithChecks ==
    (Verified /\ vr.res = Panic) =>
        /\ overflow_checks
        /\ ~(InI64(vr.now - Timestamp) /\ InI64(Distance) /\ InI64(WindowSeconds))

\* the signature was presented to verify before
Replayed == vr.seen >= 1

\* C19: verify keeps no state between calls: its result depends only on the
\* signature string, the timestamp, the message, the key, the window and the
\* clock, so the same call at the same clock value returns the same result,
\* and a replayed signature is accepted every time it is presented inside
\* the window.
C19_ReplayAcceptedEveryTime ==
    Verified =>
        /\ vr.res = verify(sig.res.val, vr.m, vr.k, vr.w, vr.now, overflow_checks)
        /\ (/\ Replayed /\ Genuine /\ vr.m = sig.m /\ vr.k = sig.k
            /\ vr.w >= 0 /\ Distance <= WindowSeconds)
                => vr.res = Ok(TRUE)

\* what the code does: the result of a presentation does not depend on the
\* earlier ones, and a replayed signature is accepted every time inside a
\* window whose seconds fit an i64
C19_ReplayAcceptedWindowFits ==
    Verified =>
        /\ vr.res = verify(sig.res.val, vr.m, vr.k, vr.w, vr.now, overflow_checks)
        /\ (/\ Replayed /\ Genuine /\ vr.m = sig.m /\ vr.k = sig.k
            /\ vr.w >= 0 /\ Distance <= WindowSeconds /\ WindowFits)
                => vr.res = Ok(TRUE)

-----------------------------------------------------------------------------
(* Further claims on the encryptor, under EncSpec *)

\* the token is not standard base64 or decodes to fewer than 28 bytes
Malformed ==
    LET combined == B64Decode(dec.token)
    IN  ~combined.ok \/ Len(combined.val) < NonceLen + TagLen

\* C16: decrypt and decrypt_bytes return Err(InvalidCiphertext) exactly when
\* the input is not valid standard base64 or decodes to fewer than 28 bytes;
\* an input of 28 bytes or more ends in Ok or DecryptionFailed.
C16_InvalidCiphertextExactly ==
    dec.op = "decrypt" =>
        /\ dec.res = Err("InvalidCiphertext") <=> Malformed
        /\ dec.raw = Err("InvalidCiphertext") <=> Malformed
        /\ ~Malformed => (dec.res.ok \/ dec.res = Err("DecryptionFailed"))
        /\ ~Malformed => (dec.raw.ok \/ dec.raw = Err("DecryptionFailed"))

C16_Witness ==
    /\ dec.op = "decrypt"
    /\ dec.pos = -1
    /\ B64Decode(dec.token).ok
    /\ Len(B64Decode(dec.token).val) = NonceLen + TagLen - 1
    /\ dec.res = Err("InvalidCiphertext")
    /\ dec.raw = Err("InvalidCiphertext")

-----------------------------------------------------------------------------
(* Claims on the four signing functions, under SignSpec *)

\* C18: Signer::sign, Signer::sign_with_nonce, SignedRequest::sign and
\* create_signed_url each return Err(InvalidKey) exactly when the key is not
\* 32 bytes long, and then produce no Signature, no signed request, no URL.
C18_InvalidKeyExactly ==
    /\ sig.op \in {"sign", "sign_with_nonce"} =>
            sig.res.ok = (Len(sig.k) = KeyLen)
    /\ (sig.op \in {"sign", "sign_with_nonce"} /\ ~sig.res.ok) =>
            sig.res = Err("InvalidKey")
    /\ req.stage \in {"signed", "failed"} =>
            (req.stage = "signed") = (Len(req.k) = KeyLen)
    /\ req.stage = "failed" => req.err = "InvalidKey"
    /\ url.op = "create" => url.res.ok = (Len(url.k) = KeyLen)
    /\ (url.op = "create" /\ ~url.res.ok) => url.res = Err("InvalidKey")

C18_Witness ==
    /\ sig.op = "sign_with_nonce"
    /\ Len(sig.k) = KeyLen + 1
    /\ sig.res = Err("InvalidKey")
    /\ req.stage = "failed"
    /\ Len(req.k) = KeyLen - 1
    /\ url.op = "create"
    /\ url.res = Err("InvalidKey")

-----------------------------------------------------------------------------
(* Claims on concurrent calls, under ConcSpec *)

\* what the call of thread t returns when it runs alone
Alone(t) ==
    IF thr[t].op = "encrypt"
    THEN encrypt(cipher, thr[t].pt, thr[t].nonce_bytes)
    ELSE decrypt(cipher, thr[t].token)

\* C20: under every interleaving of encrypt and decrypt calls on one shared
\* encryptor each call returns what it returns when run alone, no call
\* changes the encryptor, and every token decrypts to the plaintext of the
\* call that produced it.
C20_CallsReturnAsIfAlone ==
    /\ [](\A t \in Threads : thr[t].pc = "done" =>
            /\ thr[t].res = Alone(t)
            /\ thr[t].op = "encrypt" => thr[t].res.ok
            /\ thr[t].op = "decrypt" => thr[t].res = Ok(issued[thr[t].i].pt))
    /\ [][cipher' = cipher]_vars

C20_Witness ==
    /\ thr[1].pc = "done"
    /\ thr[1].op = "decrypt"
    /\ thr[1].res = Ok(issued[thr[1].i].pt)
    /\ thr[2].pc = "encode"


-----------------------------------------------------------------------------
(* Further claims on Hash, under HashSpec *)

\* the Hash stored away and the Hash held come from two Hash::argon2 calls
\* on one secret
TwoDefaultHashes ==
    /\ kept.op = "argon2"
    /\ hsh.op = "argon2"
    /\ kept.secret = hsh.secret

\* a verify of the Hash that Hash::argon2 returned, with the secret hashed
DefaultHashVerified ==
    /\ hv.op = "verify"
    /\ hsh.op = "argon2"
    /\ hv.secret = hsh.secret

\* C21 (as stated): any two calls of Hash::argon2 on the same secret return
\* Hash values with different encoded strings, and each verifies the secret.
C21_TwoHashesAlwaysDiffer ==
    /\ TwoDefaultHashes =>
            Hash_to_string(kept.res.val) # Hash_to_string(hsh.res.val)
    /\ DefaultHashVerified => hv.res = Ok(TRUE)

\* C21 (amended): two calls of Hash::argon2 on the same secret return
\* different encoded strings exactly when the salts drawn differ, and each
\* Hash verifies the secret.
C21_TwoHashesDifferBySalt ==
    /\ TwoDefaultHashes =>
            ((Hash_to_string(kept.res.val) # Hash_to_string(hsh.res.val))
                <=> kept.salt # hsh.salt)
    /\ DefaultHashVerified => hv.res = Ok(TRUE)

C21_Witness ==
    /\ TwoDefaultHashes
    /\ kept.salt # hsh.salt
    /\ Hash_to_string(kept.res.val) # Hash_to_string(hsh.res.val)
    /\ DefaultHashVerified
    /\ hv.res = Ok(TRUE)

-----------------------------------------------------------------------------
(* Claims on signatures that carry a nonce, under NonceSpec *)

\* a Signature as Signer::sign_with_nonce returned it
Nonced == sig.op = "sign_with_nonce" /\ sig.res.ok /\ ~sig.forged

\* "{message}:{timestamp}:{nonce}" of the call that made the signature held
Composite == sig.m \o <<58>> \o Decimal(sig.at) \o <<58>> \o sig.n

\* C22 (as stated): sign_with_nonce(message, key, nonce) computes the MAC over
\* exactly "{message}:{timestamp}:{nonce}", in place of the
\* "{timestamp}.{message}" that sign uses, and returns a Signature whose
\* timestamp is the clock value at the call and whose nonce is Some(nonce).
C22_MacOverCompositeOnly ==
    Nonced =>
        /\ sig.res.val.signature = B64Encode(HmacSha256(sig.k, Composite))
        /\ sig.res.val.timestamp = sig.at
        /\ sig.res.val.nonce = Some(sig.n)

\* C22 (amended): sign_with_nonce computes the MAC over
\* "{timestamp}.{message}:{timestamp}:{nonce}": the composite string takes
\* the place of the message in the "{timestamp}.{message}" input of sign.
\* The Signature returned has the clock value at the call as timestamp and
\* Some(nonce) as nonce.
C22_MacOverTimestampDotComposite ==
    Nonced =>
        /\ sig.res.val.signature =
                B64Encode(HmacSha256(sig.k, Decimal(sig.at) \o <<46>> \o Composite))
        /\ sig.res.val.timestamp = sig.at
        /\ sig.res.val.nonce = Some(sig.n)

C22_Witness ==
    /\ Nonced
    /\ sig.at > 0
    /\ sig.res.val.nonce = Some(sig.n)
    /\ sig.res.val.timestamp = sig.at
    /\ sig.res.val.signature =
            B64Encode(HmacSha256(sig.k, Decimal(sig.at) \o <<46>> \o Composite))

-----------------------------------------------------------------------------
(* Further claims on the signed URL functions, under UrlMinuteSpec *)

\* the text that follows the only occurrence of the delimiter d in s
After(s, d) ==
    LET i == CHOOSE j \in Matches(s, d) : TRUE
    IN  SubSeq(s, i + Len(d), Len(s))

\* t is a decimal i64: an optional sign, then digits only, at least one,
\* writing a number an i64 holds
DecimalI64(t) ==
    LET signed == Len(t) > 0 /\ t[1] \in {43, 45}
        body == IF signed THEN SubSeq(t, 2, Len(t)) ELSE t
        magnitude == DigitsValue(body, Len(body))
    IN  /\ Len(body) > 0
        /\ \A i \in 1..Len(body) : body[i] \in 48..57
        /\ IF signed /\ t[1] = 45 THEN -magnitude >= I64Min ELSE magnitude <= I64Max

\* the input of the verify_signed_url call is not of the form
\* <query>&signature=<sig>&timestamp=<decimal i64>
UrlMalformed ==
    LET q == url.res.val
    IN  \/ Cardinality(Matches(q, SignatureDelim)) # 1
        \/ Cardinality(Matches(After(q, SignatureDelim), TimestampDelim)) # 1
        \/ ~DecimalI64(After(After(q, SignatureDelim), TimestampDelim))

\* C23: verify_signed_url returns Err(InvalidSignature) whenever its input
\* does not contain exactly one "&signature=", or the part after it does not
\* contain exactly one "&timestamp=", or the text after that is not a
\* decimal i64, whatever the key and the clock; it returns InvalidSignature
\* in no other case.
C23_MalformedUrlIsInvalidSignature ==
    uv.op = "verify" => (uv.res = Err("InvalidSignature") <=> UrlMalformed)

C23_Witness ==
    /\ uv.op = "verify"
    /\ UrlMalformed
    /\ Cardinality(Matches(url.res.val, SignatureDelim)) = 1
    /\ Len(uv.k) # KeyLen
    /\ uv.w = 0
    /\ uv.now > url.ts
    /\ uv.res = Err("InvalidSignature")

-----------------------------------------------------------------------------
(* Claims on the text and byte APIs of the encryptor, under ByteSpec *)

\* C24: the text and byte APIs share one token format.  For a token issued
\* by encrypt_bytes(b) or encrypt(s) and decrypted as issued by the same
\* encryptor, decrypt_bytes returns Ok of the bytes encrypted; decrypt
\* returns Ok(the string) when they are valid UTF-8 and
\* Err(DecryptionFailed) when they are not.
C24_TextAndBytesShareTokens ==
    (Intact /\ dec.key = cipher) =>
        /\ dec.raw = Ok(issued[dec.i].pt)
        /\ dec.res = IF Utf8Valid(issued[dec.i].pt) THEN Ok(issued[dec.i].pt)
                      ELSE Err("DecryptionFailed")

C24_Witness ==
    /\ Intact
    /\ dec.key = cipher
    /\ issued[dec.i].pt = <<65, 169>>
    /\ issued[dec.i].out = encrypt_bytes(cipher, <<65, 169>>, issued[dec.i].nonce)
    /\ dec.raw = Ok(<<65, 169>>)
    /\ dec.res = Err("DecryptionFailed")

-----------------------------------------------------------------------------
(* Claims on the cost parameters of Hash, under HashSpec *)

\* C25: Hash::bcrypt_cost(secret, cost) returns an error for every cost
\* outside 4..=31 and Ok(a bcrypt-tagged hash that verifies secret) for every
\* cost inside it; Hash::argon2_custom returns an error when the primitive
\* rejects the tuple (iterations = 0 for one); the error is HashingFailed
\* and no Hash comes with it.
C25_CostsValidated ==
    /\ hsh.op = "bcrypt_cost" =>
            IF hsh.cost >= 4 /\ hsh.cost <= 31
            THEN /\ hsh.res.ok
                 /\ hsh.res.val.algorithm = "bcrypt"
                 /\ SubSeq(hsh.res.val.hash, 5, 6) = TwoDigits(hsh.cost)
            ELSE hsh.res = Err("HashingFailed")
    /\ (hv.op = "verify" /\ hsh.op = "bcrypt_cost" /\ hv.secret = hsh.secret)
            => hv.res = Ok(TRUE)
    /\ hsh.op = "argon2_custom" =>
            /\ hsh.tuple[2] = 0 => ~hsh.res.ok
            /\ ArgonParamsOk(hsh.tuple[1], hsh.tuple[2], hsh.tuple[3])
                    => (hsh.res.ok /\ hsh.res.val.algorithm = "argon2")
            /\ ~ArgonParamsOk(hsh.tuple[1], hsh.tuple[2], hsh.tuple[3])
                    => hsh.res = Err("HashingFailed")

\* a cost one above the range was refused, after a cost inside the range
\* gave a hash that verified
C25_Witness ==
    /\ hsh.op = "bcrypt_cost"
    /\ hsh.cost = 31
    /\ hsh.res.ok
    /\ hv.op = "verify"
    /\ hv.secret = hsh.secret
    /\ hv.res = Ok(TRUE)

-----------------------------------------------------------------------------
(* Claims on generate_otp, under OtpSpec *)

\* C26: for every n >= 0, generate_otp(n) returns a string of exactly n
\* characters, each an ASCII digit 0-9 (n = 6 gives six digits, n = 0 the
\* empty string).
C26_OtpIsDigits ==
    otp.op = "generate_otp" =>
        /\ Len(otp.res) = otp.digits
        /\ \A i \in 1..Len(otp.res) : otp.res[i] \in 48..57
        /\ otp.digits = 0 => otp.res = <<>>

C26_Witness ==
    /\ otp.op = "generate_otp"
    /\ otp.digits = 6
    /\ Len(otp.res) = 6
    /\ otp.res[1] = 57
    /\ otp.res[6] = 48

-----------------------------------------------------------------------------
(* Claims on verifying signatures that carry a nonce, under NonceSpec *)

\* the values the pub field nonce may hold
NonceValues == {None} \cup {Some(n) : n \in NonceTexts \cup {<<120>>}}

\* the result of the verify call is the same whatever the nonce field holds
NonceNeverRead ==
    Verified =>
        \A nonce \in NonceValues :
            verify([sig.res.val EXCEPT !.nonce = nonce], vr.m, vr.k, vr.w, vr.now,
                   overflow_checks) = vr.res

\* the signature verified was made by sign_with_nonce; only its nonce field
\* may have been set since
MadeWithNonce == Verified /\ sig.op = "sign_with_nonce" /\ sig.res.ok

\* C27: Signature::verify never reads the nonce field.  A signature made by
\* sign_with_nonce(m, k, n) at timestamp t verifies as Ok(true) only when the
\* caller passes "{m}:{t}:{n}", and verify with the bare message m and the
\* key k returns Ok(false) inside the window.
C27_NonceNeverReadBareMessageFalse ==
    /\ NonceNeverRead
    /\ (MadeWithNonce /\ vr.res = Ok(TRUE)) => vr.m = Composite
    /\ (MadeWithNonce /\ vr.m = sig.m /\ vr.k = sig.k /\ Distance <= WindowSeconds)
            => vr.res = Ok(FALSE)

\* C27 where max_age_minutes * 60 fits an i64
C27_NonceNeverReadBareMessageFalseWindowFits ==
    /\ NonceNeverRead
    /\ (MadeWithNonce /\ vr.res = Ok(TRUE)) => vr.m = Composite
    /\ (MadeWithNonce /\ vr.m = sig.m /\ vr.k = sig.k /\ Distance <= WindowSeconds
            /\ WindowFits)
            => vr.res = Ok(FALSE)

\* the composite message verifies a signature whose nonce field was set to
\* another value
C27_CompositeVerifies ==
    /\ MadeWithNonce
    /\ sig.res.val.nonce # Some(sig.n)
    /\ vr.m = Composite
    /\ vr.res = Ok(TRUE)

-----------------------------------------------------------------------------
(* Claims on the verification paths, under PathSpec *)

\* what Signature::verify, Signer::quick_verify and SignedRequest::verify
\* returned for the request in flight
PathResults == {rv.sigv, rv.quick, rv.res}

\* C28: in Signature::verify, Signer::quick_verify and SignedRequest::verify
\* the time window is decided first: when |now - timestamp| >
\* max_age_minutes * 60 the result is Err(SignatureExpired) even if the key
\* is not 32 bytes long or the MAC does not match; Err(InvalidKey) is
\* returned only inside the window, and Ok(false) only inside the window
\* with a 32-byte key.
C28_WindowDecidedFirst ==
    ReqVerified =>
        \A r \in PathResults :
            /\ ReqDistance > ReqWindowSeconds => r = Err("SignatureExpired")
            /\ r = Err("InvalidKey") => ReqDistance <= ReqWindowSeconds
            /\ r = Ok(FALSE) =>
                    (ReqDistance <= ReqWindowSeconds /\ Len(rv.k) = KeyLen)

\* C28 where now - timestamp, its absolute value and max_age_minutes * 60
\* all fit an i64
C28_WindowDecidedFirstNoOverflow ==
    (ReqVerified /\ InI64(ReqWindowSeconds) /\ ReqDistance <= I64Max) =>
        \A r \in PathResults :
            /\ ReqDistance > ReqWindowSeconds => r = Err("SignatureExpired")
            /\ r = Err("InvalidKey") => ReqDistance <= ReqWindowSeconds
            /\ r = Ok(FALSE) =>
                    (ReqDistance <= ReqWindowSeconds /\ Len(rv.k) = KeyLen)

\* outside the window a 31-byte key gives SignatureExpired on every path
C28_ExpiredBeforeKey ==
    /\ ReqVerified
    /\ Len(rv.k) # KeyLen
    /\ InI64(ReqWindowSeconds)
    /\ ReqDistance > ReqWindowSeconds
    /\ PathResults = {Err("SignatureExpired")}

\* C29: the verification paths are the same function: Signer::verify,
\* Signature::verify and Signer::quick_verify return the same result for the
\* same message, signature string, timestamp, key, window and clock value,
\* whatever the nonce of the Signature, and SignedRequest::verify returns
\* what Signer::quick_verify returns for the canonical message, signature
\* and timestamp of the request.
C29_PathsAgree ==
    ReqVerified =>
        /\ rv.signer = rv.sigv
        /\ rv.sigv = rv.quick
        /\ rv.res = rv.quick

\* the paths agree on an error, on a refusal and on a panic
C29_Witness ==
    /\ ReqVerified
    /\ rv.signer = rv.quick
    /\ rv.res = rv.quick
    /\ rv.quick = Err("InvalidKey")
    /\ rv.nonce # None
    /\ req.r.timestamp # req.orig.timestamp

-----------------------------------------------------------------------------
(* Claims on the tag of a Hash, under HashSpec *)

\* the constructors of a Hash
HashConstructors == {"argon2", "argon2_custom", "bcrypt", "bcrypt_cost", "from_string"}

\* C30: every Hash made by Hash::argon2, Hash::argon2_custom, Hash::bcrypt,
\* Hash::bcrypt_cost or Hash::from_string has the tag "argon2" or "bcrypt",
\* the tag agrees with the prefix of the stored string ("$argon2" for
\* argon2, "$2a$", "$2b$" or "$2y$" for bcrypt), from_string(to_string(h))
\* gives back the same tag and the same string, and verify takes the branch
\* of its tag, never the branch for an unknown algorithm.
C30_TagAgreesWithString ==
    /\ (hsh # NoCall /\ hsh.op \in HashConstructors /\ hsh.res.ok) =>
            /\ Stored.algorithm \in {"argon2", "bcrypt"}
            /\ Stored.algorithm = "argon2" <=> ArgonPrefixed(Stored.hash)
            /\ Stored.algorithm = "bcrypt" <=> BcryptPrefixed(Stored.hash)
            /\ Hash_from_string(Hash_to_string(Stored)) = Ok(Stored)
    /\ HashVerified =>
            hv.res = IF ArgonPrefixed(Stored.hash)
                     THEN verify_argon2(Stored, hv.secret)
                     ELSE verify_bcrypt(Stored, hv.secret)

\* a Hash of Hash::argon2_custom, tagged argon2, verified its own secret
C30_Witness ==
    /\ hsh # NoCall
    /\ hsh.op = "argon2_custom"
    /\ hsh.res.ok
    /\ Stored.algorithm = "argon2"
    /\ HashVerified
    /\ hv.secret = hsh.secret
    /\ hv.res = Ok(TRUE)

====
